---- MODULE Spec2Model ----
(***************************************************************************)
(* A model of matchblade: the pattern-matching engine (match / caseOf /    *)
(* matchValue), the utilities layered on it (evolve, traverse), the tree   *)
(* builder listToTree, the promise-object resolver awaitObj, the pipelines *)
(* pipeAsync and pipeTap, the guard failOn and the indexer mapBy.          *)
(*                                                                         *)
(* JavaScript values are records tagged by the field t.  Arrays carry     *)
(* their elements as a sequence, objects carry their own enumerable       *)
(* properties as a sequence of [k, v] entries in insertion order.         *)
(***************************************************************************)
EXTENDS Integers, Sequences, FiniteSets, TLC

VARIABLES pc, mvValue, mvMatcher, mvResult, cases, values, outcome, trace,
          specs, source, evolved, evolvedRef, travValue, travResult,
          travCalls, list, tree, aoObj, promises, mappers, jobs, collected,
          allPromise, awaited, history, fns, input, calls, links, inner,
          guard, message, guarded, failResult, keyFn, mapResult,
          curriedResult

vars == <<pc, mvValue, mvMatcher, mvResult, cases, values, outcome, trace,
          specs, source, evolved, evolvedRef, travValue, travResult,
          travCalls, list, tree, aoObj, promises, mappers, jobs, collected,
          allPromise, awaited, history, fns, input, calls, links, inner,
          guard, message, guarded, failResult, keyFn, mapResult,
          curriedResult>>

(***************************************************************************)
(* Bounds of the model.                                                    *)
(***************************************************************************)
\* longest array drawn as an input value or as an array matcher
MaxLen == 3
\* longest case list given to match
MaxCases == 2

(***************************************************************************)
(* JavaScript values.                                                      *)
(***************************************************************************)
Undef == [t |-> "undefined"]
Null == [t |-> "null"]
DateV == [t |-> "date"]
Num(n) == [t |-> "number", n |-> n]
Str(s) == [t |-> "string", s |-> s]
Bool(b) == [t |-> "boolean", b |-> b]
Arr(items) == [t |-> "array", items |-> items]
Obj(entries) == [t |-> "object", entries |-> entries]
Fn(name) == [t |-> "function", name |-> name]
Entry(k, v) == [k |-> k, v |-> v]

\* the typeof operator
typeof(v) ==
  CASE v.t \in {"null", "array", "object", "date"} -> "object"
    [] OTHER -> v.t

\* the property name of the array index i (the model's sequences start at 1)
IndexKey(i) ==
  CASE i = 1 -> "0"
    [] i = 2 -> "1"
    [] i = 3 -> "2"
    [] i = 4 -> "3"
    [] OTHER -> "4"

\* Object.entries(v): own enumerable properties, in order
ObjectEntries(v) ==
  CASE v.t = "object" -> v.entries
    [] v.t = "array" -> [i \in 1..Len(v.items) |-> Entry(IndexKey(i), v.items[i])]
    [] v.t = "string" -> <<Entry("0", v)>>
    [] OTHER -> <<>>

\* v[key]: property access, undefined when v has no such property
Get(v, key) ==
  IF v.t = "array" /\ key = "length"
  THEN Num(Len(v.items))
  ELSE LET es == ObjectEntries(v)
           hit == {i \in 1..Len(es) : es[i].k = key}
       IN IF hit = {} THEN Undef ELSE es[CHOOSE i \in hit : TRUE].v

\* does the object-like value v have an own property key
Has(v, key) == \E i \in 1..Len(ObjectEntries(v)) : ObjectEntries(v)[i].k = key

(***************************************************************************)
(* utils.ts                                                                *)
(***************************************************************************)
\* the wildcard _ = () => true
Wild == Fn("_")

isArray(v) == v.t = "array"

\* utils.isObject: Object.prototype.toString.call(obj) === '[object Object]'
isPlainObject(v) == v.t = "object"

isFunction(v) == typeof(v) = "function"

isUndefined(v) == typeof(v) = "undefined"

\* a check that takes null for undefined as well (value != null)
isNotNil(v) == v.t \notin {"undefined", "null"}

isNotUndefined(v) == ~isUndefined(v)

\* the predicates used as matchers, by name
CallPredicate(p, v) ==
  CASE p.name = "_" -> TRUE
    [] p.name = "isString" -> typeof(v) = "string"
    [] p.name = "isNumber" -> typeof(v) = "number"
    [] p.name = "isArray" -> isArray(v)
    [] p.name = "isObject" -> isPlainObject(v)
    [] p.name = "isFunction" -> isFunction(v)
    [] p.name = "isUndefined" -> isUndefined(v)
    [] p.name = "isNotUndefined" -> isNotUndefined(v)
    [] OTHER -> FALSE

(***************************************************************************)
(* match.ts: matchValue                                                    *)
(***************************************************************************)
\* the length isTuple asks of an array
TupleLen == 2

isTuple(v) == v.t = "array" /\ Len(v.items) = TupleLen

\* match.ts's own isObject: typeof value === 'object' && value !== null
isObject(v) == typeof(v) = "object" /\ v # Null

isPrimitive(v) == typeof(v) \notin {"object", "function"}

\* ToNumber on the primitives of the model; -1 stands for NaN
ToNumber(v) ==
  CASE v.t = "number" -> v.n
    [] v.t = "boolean" -> IF v.b THEN 1 ELSE 0
    [] v.t = "string" /\ v.s = "0" -> 0
    [] v.t = "string" /\ v.s = "1" -> 1
    [] OTHER -> -1

\* a == b, the comparison with type coercion
LooseEquals(a, b) ==
  IF a.t = b.t
  THEN a = b
  ELSE IF {a.t, b.t} = {"null", "undefined"}
  THEN TRUE
  ELSE IF {a.t, b.t} \subseteq {"number", "string", "boolean"}
  THEN ToNumber(a) = ToNumber(b) /\ ToNumber(a) # -1
  ELSE FALSE

\* a === b when one side is a primitive
StrictEquals(a, b) == a = b

RECURSIVE matchValue(_, _)

\* matchValue with an object rule that asks for the same number of keys
matchValueExactShape(value, matcher) ==
  IF typeof(matcher) = "function"
  THEN CallPredicate(matcher, value)
  ELSE IF isPrimitive(matcher)
  THEN StrictEquals(value, matcher)
  ELSE IF isTuple(matcher) /\ isTuple(value)
  THEN matchValue(value.items[1], matcher.items[1])
       /\ matchValue(value.items[2], matcher.items[2])
  ELSE IF isObject(matcher) /\ isObject(value)
  THEN /\ Len(ObjectEntries(matcher)) = Len(ObjectEntries(value))
       /\ \A i \in 1..Len(ObjectEntries(matcher)) :
            matchValue(Get(value, ObjectEntries(matcher)[i].k),
                       ObjectEntries(matcher)[i].v)
  ELSE FALSE

matchValue(value, matcher) ==
  IF typeof(matcher) = "function"
  THEN CallPredicate(matcher, value)
  ELSE IF isPrimitive(matcher)
  THEN StrictEquals(value, matcher)
  ELSE IF isTuple(matcher) /\ isTuple(value)
  THEN matchValue(value.items[1], matcher.items[1])
       /\ matchValue(value.items[2], matcher.items[2])
  ELSE IF isObject(matcher) /\ isObject(value)
  THEN \A i \in 1..Len(ObjectEntries(matcher)) :
         matchValue(Get(value, ObjectEntries(matcher)[i].k),
                    ObjectEntries(matcher)[i].v)
  ELSE FALSE

(***************************************************************************)
(* match.ts: caseOf and match                                              *)
(***************************************************************************)
\* how a call ends: with a returned value or with a thrown error
Return(v) == [kind |-> "return", value |-> v]
Throw(e) == [kind |-> "throw", error |-> e]

\* a handler function of the caller: the i-th one either returns a value made
\* of its arguments or throws its own error
HandlerFn(i, throws) == [t |-> "function", name |-> "handler", id |-> i, throws |-> throws]

CallHandler(h, args) ==
  IF h.throws
  THEN Throw([type |-> "HandlerError", id |-> h.id])
  ELSE Return([t |-> "result", id |-> h.id, args |-> args])

caseOf(predicates, handler) == [predicates |-> predicates, handler |-> handler]

\* values[index], undefined past the end of the argument list
ValueAt(vals, index) == IF index <= Len(vals) THEN vals[index] ELSE Undef

\* JSON.stringify, as the JSON tree it writes: undefined and functions become
\* null inside arrays and are left out of objects, a date becomes a string
RECURSIVE JSONStringify(_)
JSONStringify(v) ==
  CASE v.t = "array" ->
         Arr([i \in 1..Len(v.items) |->
                IF v.items[i].t \in {"undefined", "function"}
                THEN Null
                ELSE JSONStringify(v.items[i])])
    [] v.t = "object" ->
         LET kept == SelectSeq(v.entries,
                               LAMBDA e : e.v.t \notin {"undefined", "function"})
         IN Obj([i \in 1..Len(kept) |-> Entry(kept[i].k, JSONStringify(kept[i].v))])
    [] v.t = "date" -> Str("toISOString")
    [] OTHER -> v

\* new Error(`No match found for ${JSON.stringify(values, null, 2)}`)
NoMatchFound(vals) ==
  [type |-> "NoMatchFound", message |-> "No match found for ",
   rendering |-> JSONStringify(Arr(vals))]

\* predicates.every(...): the first position whose matcher fails, 0 when none
FirstFailing(predicates, vals) ==
  LET failing == {j \in 1..Len(predicates) :
                    ~matchValue(ValueAt(vals, j), predicates[j])}
  IN IF failing = {} THEN 0 ELSE CHOOSE j \in failing : \A k \in failing : j <= k

allMatch(predicates, vals) == FirstFailing(predicates, vals) = 0

\* the matchers every() evaluates for case i: up to the first that fails
MatcherEvents(i, predicates, vals) ==
  LET n == IF allMatch(predicates, vals)
           THEN Len(predicates)
           ELSE FirstFailing(predicates, vals)
  IN [j \in 1..n |-> [ev |-> "matcher", case |-> i, index |-> j]]

HandlerEvent(i) == [ev |-> "handler", case |-> i, index |-> 0]

RECURSIVE matchFrom(_, _, _, _)

\* the loop with the last matching case selected instead of the first
matchFromLastWins(cs, vals, i, tr) ==
  IF i > Len(cs)
  THEN [outcome |-> Throw(NoMatchFound(vals)), trace |-> tr]
  ELSE LET predicates == cs[i].predicates
           handler == cs[i].handler
           seen == tr \o MatcherEvents(i, predicates, vals)
           later == \E k \in (i + 1)..Len(cs) : allMatch(cs[k].predicates, vals)
       IN IF allMatch(predicates, vals) /\ ~later
          THEN IF isFunction(handler)
               THEN [outcome |-> CallHandler(handler, vals),
                     trace |-> Append(seen, HandlerEvent(i))]
               ELSE [outcome |-> Return(handler), trace |-> seen]
          ELSE matchFrom(cs, vals, i + 1, seen)

\* the loop returning undefined, not throwing, when no case matches
matchFromSilent(cs, vals, i, tr) ==
  IF i > Len(cs)
  THEN [outcome |-> Return(Undef), trace |-> tr]
  ELSE LET predicates == cs[i].predicates
           handler == cs[i].handler
           seen == tr \o MatcherEvents(i, predicates, vals)
       IN IF allMatch(predicates, vals)
          THEN IF isFunction(handler)
               THEN [outcome |-> CallHandler(handler, vals),
                     trace |-> Append(seen, HandlerEvent(i))]
               ELSE [outcome |-> Return(handler), trace |-> seen]
          ELSE matchFrom(cs, vals, i + 1, seen)

\* the loop catching a handler's error and going on to the next case
matchFromCatching(cs, vals, i, tr) ==
  IF i > Len(cs)
  THEN [outcome |-> Throw(NoMatchFound(vals)), trace |-> tr]
  ELSE LET predicates == cs[i].predicates
           handler == cs[i].handler
           seen == tr \o MatcherEvents(i, predicates, vals)
       IN IF allMatch(predicates, vals)
          THEN IF isFunction(handler)
               THEN IF CallHandler(handler, vals).kind = "throw"
                    THEN matchFrom(cs, vals, i + 1, Append(seen, HandlerEvent(i)))
                    ELSE [outcome |-> CallHandler(handler, vals),
                          trace |-> Append(seen, HandlerEvent(i))]
               ELSE [outcome |-> Return(handler), trace |-> seen]
          ELSE matchFrom(cs, vals, i + 1, seen)

\* the loop looking at the matchers of the next case before it runs the
\* handler of the case it selected
matchFromPeeking(cs, vals, i, tr) ==
  IF i > Len(cs)
  THEN [outcome |-> Throw(NoMatchFound(vals)), trace |-> tr]
  ELSE LET predicates == cs[i].predicates
           handler == cs[i].handler
           ahead == IF i < Len(cs)
                    THEN MatcherEvents(i + 1, cs[i + 1].predicates, vals)
                    ELSE <<>>
           seen == tr \o MatcherEvents(i, predicates, vals)
       IN IF allMatch(predicates, vals)
          THEN IF isFunction(handler)
               THEN [outcome |-> CallHandler(handler, vals),
                     trace |-> Append(seen \o ahead, HandlerEvent(i))]
               ELSE [outcome |-> Return(handler), trace |-> seen \o ahead]
          ELSE matchFrom(cs, vals, i + 1, seen)

\* the dispatcher's loop from case i on; tr is what has been evaluated so far
matchFrom(cs, vals, i, tr) ==
  IF i > Len(cs)
  THEN [outcome |-> Throw(NoMatchFound(vals)), trace |-> tr]
  ELSE LET predicates == cs[i].predicates
           handler == cs[i].handler
           seen == tr \o MatcherEvents(i, predicates, vals)
       IN IF allMatch(predicates, vals)
          THEN IF isFunction(handler)
               THEN [outcome |-> CallHandler(handler, vals),
                     trace |-> Append(seen, HandlerEvent(i))]
               ELSE [outcome |-> Return(handler), trace |-> seen]
          ELSE matchFrom(cs, vals, i + 1, seen)

\* match(...cases)(...values)
match(cs, vals) == matchFrom(cs, vals, 1, <<>>)

(***************************************************************************)
(* evolve.ts                                                               *)
(***************************************************************************)
\* a transform function of the caller applied to an argument: the model keeps
\* the application itself, so that two calls agree only on the same function
\* and the same argument
Apply(fn, arg) == [t |-> "applied", fn |-> fn.name, arg |-> arg]

\* evolve(specs) with no source: (obj) => evolve(specs, obj)
Curried(sp) == [t |-> "function", name |-> "evolve", specs |-> sp]

\* the five cases of fork; the handlers are told apart by their position
forkCases ==
  << caseOf(<<Fn("isArray"), Fn("isObject")>>, HandlerFn(1, FALSE)),
     caseOf(<<Fn("isObject"), Fn("isObject")>>, HandlerFn(2, FALSE)),
     caseOf(<<Fn("isNotUndefined"), Fn("isFunction")>>, HandlerFn(3, FALSE)),
     caseOf(<<Fn("isUndefined"), Fn("isFunction")>>, HandlerFn(4, FALSE)),
     caseOf(<<Wild, Wild>>, HandlerFn(5, FALSE)) >>

\* { ...acc, [key]: res }
SpreadAssign(acc, key, res) ==
  LET es == ObjectEntries(acc)
  IN IF \E i \in 1..Len(es) : es[i].k = key
     THEN Obj([i \in 1..Len(es) |-> IF es[i].k = key THEN Entry(key, res) ELSE es[i]])
     ELSE Obj(Append(es, Entry(key, res)))

\* source ?? {}
OrEmpty(src) == IF src.t \in {"null", "undefined"} THEN Obj(<<>>) ELSE src

RECURSIVE evolve(_, _)

\* fork with a fallback handler that returns the spec value
forkSpecLiteral(prop, spec, src) ==
  LET selected == match(forkCases, <<prop, spec>>).outcome.value.id
  IN CASE selected = 1 -> Arr([i \in 1..Len(prop.items) |-> evolve(spec, prop.items[i])])
       [] selected = 2 -> evolve(spec, prop)
       [] selected = 3 -> Apply(spec, prop)
       [] selected = 4 -> Apply(spec, src)
       [] OTHER -> spec

\* fork whose array handler evolves the array as one object
forkNoAutoMap(prop, spec, src) ==
  LET selected == match(forkCases, <<prop, spec>>).outcome.value.id
  IN CASE selected = 1 -> evolve(spec, prop)
       [] selected = 2 -> evolve(spec, prop)
       [] selected = 3 -> Apply(spec, prop)
       [] selected = 4 -> Apply(spec, src)
       [] OTHER -> prop

\* fork(prop, spec) inside evolve(specs, src): the handler of the selected case
fork(prop, spec, src) ==
  LET selected == match(forkCases, <<prop, spec>>).outcome.value.id
  IN CASE selected = 1 -> Arr([i \in 1..Len(prop.items) |-> evolve(spec, prop.items[i])])
       [] selected = 2 -> evolve(spec, prop)
       [] selected = 3 -> Apply(spec, prop)
       [] selected = 4 -> Apply(spec, src)
       [] OTHER -> prop

RECURSIVE reduce(_, _, _, _)

\* the reducer handing fork the accumulated object in place of the source
reduceWithAcc(entries, i, acc, src) ==
  IF i > Len(entries)
  THEN acc
  ELSE LET res == fork(Get(acc, entries[i].k), entries[i].v, acc)
       IN reduce(entries, i + 1, SpreadAssign(acc, entries[i].k, res), src)

\* Object.entries(specs).reduce(..., source ?? {}) from entry i on
reduce(entries, i, acc, src) ==
  IF i > Len(entries)
  THEN acc
  ELSE LET res == fork(Get(acc, entries[i].k), entries[i].v, src)
       IN reduce(entries, i + 1, SpreadAssign(acc, entries[i].k, res), src)

evolve(sp, src) ==
  IF src = Undef
  THEN Curried(sp)
  ELSE reduce(ObjectEntries(sp), 1, OrEmpty(src), src)

\* The object the call hands back, by identity: reduce returns its initial
\* value when the callback never runs, else the literal of the last spread.
evolveRef(sp, src) ==
  IF Len(ObjectEntries(sp)) = 0 /\ src.t \notin {"null", "undefined"}
  THEN "source"
  ELSE "fresh"

(***************************************************************************)
(* Inputs of matchValue.                                                   *)
(***************************************************************************)
Keys == {"a", "b"}

\* sequences over S of length at most n
SeqUpTo(S, n) == UNION {[1..k -> S] : k \in 0..n}

\* objects with keys among Keys and values in S, in every insertion order
ObjectsOver(S) ==
  {Obj(<<>>)}
    \cup {Obj(<<Entry(k, v)>>) : k \in Keys, v \in S}
    \cup UNION {{Obj(<<Entry(kk[1], v1), Entry(kk[2], v2)>>) : v1 \in S, v2 \in S} :
                  kk \in {pair \in Keys \X Keys : pair[1] # pair[2]}}

ArraysOver(S) == {Arr(s) : s \in SeqUpTo(S, MaxLen)}

ElemValues == {Undef, Null, Num(1), Str("0")}

AtomValues ==
  ElemValues \cup {Num(0), Num(99), Bool(FALSE), DateV, Fn("f")}

DeepValues ==
  { Obj(<<Entry("a", Num(1)), Entry("b", Num(99))>>),
    Obj(<<Entry("b", Num(99))>>),
    Arr(<<Num(1), Str("0"), Num(99)>>),
    Arr(<<Arr(<<Num(1), Str("0")>>), Null>>),
    Arr(<<Arr(<<Num(1), Str("0"), Num(99)>>), Null>>),
    Obj(<<Entry("a", Obj(<<Entry("b", Null)>>))>>),
    Obj(<<Entry("a", Arr(<<Num(1), Null>>))>>),
    Obj(<<Entry("a", Arr(<<>>))>>) }

Values == AtomValues \cup ArraysOver(ElemValues) \cup ObjectsOver(ElemValues)
            \cup DeepValues

ElemMatchers == {Wild, Fn("isString"), Undef, Num(1)}

AtomMatchers ==
  ElemMatchers
    \cup {Null, Num(0), Num(99), Str("0"), Bool(FALSE), DateV, Fn("isNumber")}

DeepMatchers ==
  { Arr(<<Null, Wild>>),
    Obj(<<Entry("a", Null)>>),
    Arr(<<Arr(<<Num(1), Fn("isString")>>), Null>>),
    Obj(<<Entry("a", Obj(<<Entry("b", Null)>>))>>),
    Obj(<<Entry("a", Arr(<<Num(1), Null>>))>>),
    Obj(<<Entry("a", Obj(<<>>))>>) }

Matchers == AtomMatchers \cup ArraysOver(ElemMatchers) \cup ObjectsOver(ElemMatchers)
              \cup DeepMatchers

(***************************************************************************)
(* The matchValue specification: a matcher is drawn, then matchValue is   *)
(* called with it on a drawn value.                                        *)
(***************************************************************************)
Idle == Undef

InitMatchValue ==
  /\ pc = "ready"
  /\ mvValue = Idle
  /\ mvMatcher \in Matchers
  /\ mvResult = FALSE
  /\ cases = <<>>
  /\ values = <<>>
  /\ outcome = Idle
  /\ trace = <<>>
  /\ specs = Idle
  /\ source = Idle
  /\ evolved = Idle
  /\ evolvedRef = "none"
  /\ travValue = Idle
  /\ travResult = Idle
  /\ travCalls = <<>>
  /\ list = <<>>
  /\ tree = Idle
  /\ aoObj = Idle
  /\ promises = <<>>
  /\ mappers = <<>>
  /\ jobs = <<>>
  /\ collected = <<>>
  /\ allPromise = Idle
  /\ awaited = Idle
  /\ history = <<>>
  /\ fns = <<>>
  /\ input = Idle
  /\ calls = <<>>
  /\ links = <<>>
  /\ inner = <<>>
  /\ guard = Idle
  /\ message = ""
  /\ guarded = Idle
  /\ failResult = Idle
  /\ keyFn = Idle
  /\ mapResult = Idle
  /\ curriedResult = Idle

MatchValueCall ==
  /\ pc = "ready"
  /\ \E value \in Values :
       /\ mvValue' = value
       /\ mvResult' = matchValue(value, mvMatcher)
  /\ pc' = "done"
  /\ UNCHANGED <<mvMatcher, cases, values, outcome, trace, specs, source,
                 evolved, evolvedRef, travValue, travResult, travCalls, list,
                 tree, aoObj, promises, mappers, jobs, collected, allPromise,
                 awaited, history, fns, input, calls, links, inner, guard,
                 message, guarded, failResult, keyFn, mapResult,
                 curriedResult>>

NextMatchValue == MatchValueCall

SpecMatchValue == InitMatchValue /\ [][NextMatchValue]_vars

(***************************************************************************)
(* The match specification: cases are made with caseOf one after the      *)
(* other, then the dispatcher built from them is called once on drawn     *)
(* arguments.                                                              *)
(***************************************************************************)
\* the number of matchers in each case; a call passes that many arguments, or
\* one fewer
Arity == 2

TopMatchers == {Wild, Num(1)}

TopValues == {Num(1), Str("0")}

PredicateLists == [1..Arity -> TopMatchers]

ArgumentLists == UNION {[1..n -> TopValues] : n \in (Arity - 1)..Arity}

HandlerKinds == {"function", "throwing", "static"}

\* the handler of the i-th case: each case has a handler of its own
HandlerOf(i, kind) ==
  CASE kind = "function" -> HandlerFn(i, FALSE)
    [] kind = "throwing" -> HandlerFn(i, TRUE)
    [] OTHER -> Num(i)

InitMatch ==
  /\ pc = "ready"
  /\ cases = <<>>
  /\ values = <<>>
  /\ outcome = Idle
  /\ trace = <<>>
  /\ mvValue = Idle
  /\ mvMatcher = Idle
  /\ mvResult = FALSE
  /\ specs = Idle
  /\ source = Idle
  /\ evolved = Idle
  /\ evolvedRef = "none"
  /\ travValue = Idle
  /\ travResult = Idle
  /\ travCalls = <<>>
  /\ list = <<>>
  /\ tree = Idle
  /\ aoObj = Idle
  /\ promises = <<>>
  /\ mappers = <<>>
  /\ jobs = <<>>
  /\ collected = <<>>
  /\ allPromise = Idle
  /\ awaited = Idle
  /\ history = <<>>
  /\ fns = <<>>
  /\ input = Idle
  /\ calls = <<>>
  /\ links = <<>>
  /\ inner = <<>>
  /\ guard = Idle
  /\ message = ""
  /\ guarded = Idle
  /\ failResult = Idle
  /\ keyFn = Idle
  /\ mapResult = Idle
  /\ curriedResult = Idle

CaseOf ==
  /\ pc = "ready"
  /\ Len(cases) < MaxCases
  /\ \E predicates \in PredicateLists, kind \in HandlerKinds :
       cases' = Append(cases, caseOf(predicates, HandlerOf(Len(cases) + 1, kind)))
  /\ UNCHANGED <<pc, values, outcome, trace, mvValue, mvMatcher, mvResult,
                 specs, source, evolved, evolvedRef, travValue, travResult,
                 travCalls, list, tree, aoObj, promises, mappers, jobs,
                 collected, allPromise, awaited, history, fns, input, calls,
                 links, inner, guard, message, guarded, failResult, keyFn,
                 mapResult, curriedResult>>

Dispatch ==
  /\ pc = "ready"
  /\ \E vals \in ArgumentLists :
       /\ values' = vals
       /\ LET run == match(cases, vals)
          IN outcome' = run.outcome /\ trace' = run.trace
  /\ pc' = "done"
  /\ UNCHANGED <<cases, mvValue, mvMatcher, mvResult, specs, source, evolved,
                 evolvedRef, travValue, travResult, travCalls, list, tree,
                 aoObj, promises, mappers, jobs, collected, allPromise,
                 awaited, history, fns, input, calls, links, inner, guard,
                 message, guarded, failResult, keyFn, mapResult,
                 curriedResult>>

NextMatch == CaseOf \/ Dispatch

SpecMatch == InitMatch /\ [][NextMatch]_vars

(***************************************************************************)
(* Claims about match, checked under SpecMatch.                            *)
(***************************************************************************)
\* the cases all of whose positional matchers match the arguments
Matching ==
  {i \in 1..Len(cases) :
     \A j \in 1..Len(cases[i].predicates) :
       matchValue(ValueAt(values, j), cases[i].predicates[j])}

Earliest(S) == CHOOSE i \in S : \A k \in S : i <= k

\* C1: when some case matches, the result is that of the earliest matching
\* case: its handler applied to the arguments when the handler is a function,
\* the handler itself, not called, when it is a static value.
C1_FirstMatchWins ==
  (pc = "done" /\ Matching # {})
    => LET handler == cases[Earliest(Matching)].handler
       IN IF handler.t = "function"
          THEN /\ outcome = CallHandler(handler, values)
               /\ \A e \in 1..Len(trace) :
                    trace[e].ev = "handler" => trace[e].case = Earliest(Matching)
          ELSE /\ outcome = Return(handler)
               /\ \A e \in 1..Len(trace) : trace[e].ev # "handler"

C1_Witness ==
  /\ pc = "done"
  /\ Cardinality(Matching) >= 2
  /\ cases[1].handler = Num(1)
  /\ outcome = Return(Num(1))

\* C2: the call fails with NoMatchFound, carrying a rendering of the
\* arguments, exactly when no case matches; then no handler is called and
\* nothing is returned.  An empty case list always fails so.
C2_NoMatchFound ==
  pc = "done"
    => /\ (outcome.kind = "throw" /\ outcome.error.type = "NoMatchFound")
            <=> Matching = {}
       /\ Matching = {}
            => /\ outcome = Throw(NoMatchFound(values))
               /\ outcome.error.rendering = JSONStringify(Arr(values))
               /\ \A e \in 1..Len(trace) : trace[e].ev # "handler"
       /\ cases = <<>> => outcome = Throw(NoMatchFound(values))

C2_Witness ==
  /\ pc = "done"
  /\ Len(cases) = 2
  /\ Matching = {}
  /\ outcome.kind = "throw"
  /\ outcome.error.type = "NoMatchFound"

\* C8: when the handler of the selected case throws, the call fails with that
\* same error, not caught, not wrapped, not turned into NoMatchFound, and no
\* later case is evaluated.
C8_HandlerErrorPropagates ==
  (pc = "done" /\ Matching # {}
     /\ cases[Earliest(Matching)].handler.t = "function"
     /\ cases[Earliest(Matching)].handler.throws)
    => /\ outcome = Throw([type |-> "HandlerError", id |-> Earliest(Matching)])
       /\ \A e \in 1..Len(trace) : trace[e].case <= Earliest(Matching)

C8_Witness ==
  /\ pc = "done"
  /\ Len(cases) = 2
  /\ Matching = {1, 2}
  /\ cases[1].handler = HandlerFn(1, TRUE)
  /\ outcome = Throw([type |-> "HandlerError", id |-> 1])

(***************************************************************************)
(* The evolve specification: one call on a drawn spec and source.         *)
(***************************************************************************)
SpecValues ==
  { Fn("f"), Fn("g"), Num(7),
    Obj(<<Entry("a", Fn("f"))>>),
    Obj(<<Entry("b", Fn("g")), Entry("a", Num(7))>>) }

SourceValues ==
  { Undef, Null, Num(1), Str("0"),
    Obj(<<Entry("a", Num(1))>>),
    Obj(<<Entry("a", Num(1)), Entry("b", Undef)>>),
    Arr(<<>>),
    Arr(<<Num(1), Num(99)>>),
    Arr(<<Obj(<<Entry("a", Num(1))>>), Obj(<<Entry("b", Num(99))>>)>>),
    Arr(<<Obj(<<Entry("a", Num(1))>>), Undef, Null, Num(1)>>) }

InitEvolve ==
  /\ pc = "ready"
  /\ specs \in ObjectsOver(SpecValues)
  /\ source = Idle
  /\ evolved = Idle
  /\ mvValue = Idle
  /\ mvMatcher = Idle
  /\ mvResult = FALSE
  /\ cases = <<>>
  /\ values = <<>>
  /\ outcome = Idle
  /\ trace = <<>>
  /\ evolvedRef = "none"
  /\ travValue = Idle
  /\ travResult = Idle
  /\ travCalls = <<>>
  /\ list = <<>>
  /\ tree = Idle
  /\ aoObj = Idle
  /\ promises = <<>>
  /\ mappers = <<>>
  /\ jobs = <<>>
  /\ collected = <<>>
  /\ allPromise = Idle
  /\ awaited = Idle
  /\ history = <<>>
  /\ fns = <<>>
  /\ input = Idle
  /\ calls = <<>>
  /\ links = <<>>
  /\ inner = <<>>
  /\ guard = Idle
  /\ message = ""
  /\ guarded = Idle
  /\ failResult = Idle
  /\ keyFn = Idle
  /\ mapResult = Idle
  /\ curriedResult = Idle

Evolve ==
  /\ pc = "ready"
  /\ \E src \in ObjectsOver(SourceValues) :
       /\ source' = src
       /\ evolved' = evolve(specs, src)
       /\ evolvedRef' = evolveRef(specs, src)
  /\ pc' = "done"
  /\ UNCHANGED <<specs, mvValue, mvMatcher, mvResult, cases, values, outcome,
                 trace, travValue, travResult, travCalls, list, tree, aoObj,
                 promises, mappers, jobs, collected, allPromise, awaited,
                 history, fns, input, calls, links, inner, guard, message,
                 guarded, failResult, keyFn, mapResult, curriedResult>>

NextEvolve == Evolve

SpecEvolve == InitEvolve /\ [][NextEvolve]_vars

(***************************************************************************)
(* Claims about evolve, checked under SpecEvolve.                          *)
(***************************************************************************)
\* C9: for every key K of the spec whose spec value is a function and whose
\* source value is defined (null, arrays and plain objects included), the
\* result's value at K is spec[K](source[K]).
C9_FunctionOnDefined ==
  pc = "done"
    => \A k \in Keys :
         (Has(specs, k) /\ Get(specs, k).t = "function" /\ Get(source, k) # Undef)
           => (Has(evolved, k)
               /\ Get(evolved, k) = Apply(Get(specs, k), Get(source, k)))

C9_Witness ==
  /\ pc = "done"
  /\ Get(specs, "a") = Fn("f")
  /\ Get(specs, "b") = Fn("g")
  /\ Get(source, "a") = Null
  /\ Get(source, "b") = Arr(<<Num(1), Num(99)>>)
  /\ Get(evolved, "a") = Apply(Fn("f"), Null)
  /\ Get(evolved, "b") = Apply(Fn("g"), Arr(<<Num(1), Num(99)>>))

\* C10: for every key K of the spec whose spec value is a function and whose
\* source value is undefined, the result's value at K is spec[K](source), the
\* whole source as passed to the call, never a partly evolved object,
\* whatever the order of the keys in the spec.
C10_FunctionOnUndefined ==
  pc = "done"
    => \A k \in Keys :
         (Has(specs, k) /\ Get(specs, k).t = "function" /\ Get(source, k) = Undef)
           => (Has(evolved, k) /\ Get(evolved, k) = Apply(Get(specs, k), source))

C10_Witness ==
  /\ pc = "done"
  /\ specs = Obj(<<Entry("a", Fn("f")), Entry("b", Fn("g"))>>)
  /\ source = Obj(<<Entry("a", Num(1))>>)
  /\ Get(evolved, "a") = Apply(Fn("f"), Num(1))
  /\ Get(evolved, "b") = Apply(Fn("g"), source)

\* the keys of the spec that fall under none of the function, array-of-objects
\* or nested-object rules
Fallback(k) ==
  /\ Has(specs, k)
  /\ Get(specs, k).t # "function"
  /\ ~(isPlainObject(Get(specs, k))
       /\ (isArray(Get(source, k)) \/ isPlainObject(Get(source, k))))

C12_NestedSpecRecurses ==
  pc = "done"
    => \A k \in Keys :
         (Has(specs, k) /\ isPlainObject(Get(specs, k)))
           => /\ isArray(Get(source, k))
                   => /\ isArray(Get(evolved, k))
                      /\ Len(Get(evolved, k).items) = Len(Get(source, k).items)
                      /\ \A i \in 1..Len(Get(source, k).items) :
                           Get(evolved, k).items[i]
                             = evolve(Get(specs, k), Get(source, k).items[i])
              /\ isPlainObject(Get(source, k))
                   => Get(evolved, k) = evolve(Get(specs, k), Get(source, k))

C12_Witness ==
  /\ pc = "done"
  /\ specs = Obj(<<Entry("a", Obj(<<Entry("a", Fn("f"))>>)),
                   Entry("b", Obj(<<Entry("a", Fn("f"))>>))>>)
  /\ Get(source, "a")
       = Arr(<<Obj(<<Entry("a", Num(1))>>), Obj(<<Entry("b", Num(99))>>)>>)
  /\ Get(source, "b") = Obj(<<Entry("a", Num(1))>>)
  /\ Get(evolved, "a")
       = Arr(<<Obj(<<Entry("a", Apply(Fn("f"), Num(1)))>>),
               Obj(<<Entry("b", Num(99)),
                     Entry("a", Apply(Fn("f"), Obj(<<Entry("b", Num(99))>>)))>>)>>)
  /\ Get(evolved, "b") = Obj(<<Entry("a", Apply(Fn("f"), Num(1)))>>)

\* C13: every key of the source that is not a
\* key of the spec has the same value in the result as in the source, and the
\* returned object is not the source object itself, for every spec, the
\* empty spec included.
C13_ReturnsNewObject ==
  pc = "done"
    => /\ \A k \in Keys :
            (Has(source, k) /\ ~Has(specs, k))
              => (Has(evolved, k) /\ Get(evolved, k) = Get(source, k))
       /\ evolvedRef # "source"

(***************************************************************************)
(* Claims about matchValue, checked under SpecMatchValue.                 *)
(***************************************************************************)
\* the own keys of an object-like value
KeysOf(v) == {ObjectEntries(v)[i].k : i \in 1..Len(ObjectEntries(v))}

\* the object v without the keys outside ks
RestrictTo(v, ks) == Obj(SelectSeq(v.entries, LAMBDA e : e.k \in ks))

\* C3: an array matcher matches an array input only when both have the same
\* length and every positional matcher matches the element at its position
\* (no prefix matching): [P1, P2] matches no array of length 1 or 3.
C3_TupleExactLength ==
  (pc = "done" /\ isTuple(mvMatcher) /\ mvValue.t = "array" /\ mvResult)
    => /\ Len(mvValue.items) = Len(mvMatcher.items)
       /\ \A i \in 1..Len(mvMatcher.items) :
            matchValue(mvValue.items[i], mvMatcher.items[i])

\* C4: a structural-object matcher M matches an object V exactly when, for
\* every own key K of M, matchValue(V[K], M[K]) holds (V[K] undefined when V
\* lacks K); the keys of V that M does not name never change the outcome.
C4_ObjectSubsetRule ==
  (pc = "done" /\ isPlainObject(mvMatcher) /\ isPlainObject(mvValue))
    => /\ mvResult = (\A k \in KeysOf(mvMatcher) :
                        matchValue(IF Has(mvValue, k) THEN Get(mvValue, k) ELSE Undef,
                                   Get(mvMatcher, k)))
       /\ mvResult = matchValue(RestrictTo(mvValue, KeysOf(mvMatcher)), mvMatcher)
       /\ (mvMatcher = Obj(<<Entry("a", Num(1))>>)
            /\ mvValue = Obj(<<Entry("b", Num(99))>>)) => ~mvResult

C4_Witness ==
  /\ pc = "done"
  /\ mvMatcher = Obj(<<Entry("a", Num(1))>>)
  /\ mvValue = Obj(<<Entry("a", Num(1)), Entry("b", Num(99))>>)
  /\ mvResult

\* C5: a string, number, boolean or undefined matcher m matches v exactly when
\* v === m, with no coercion: 0 does not match "0" or false, "0" does not
\* match 0.
C5_PrimitiveStrict ==
  (pc = "done" /\ mvMatcher.t \in {"string", "number", "boolean", "undefined"})
    => /\ mvResult = (mvValue = mvMatcher)
       /\ (mvMatcher = Num(0) /\ mvValue \in {Str("0"), Bool(FALSE)}) => ~mvResult
       /\ (mvMatcher = Str("0") /\ mvValue = Num(0)) => ~mvResult

C5_Witness ==
  /\ pc = "done"
  /\ mvMatcher = Num(0)
  /\ mvValue = Str("0")
  /\ ~mvResult

\* C6: null is a primitive matcher: isPrimitive(null) is true and a matcher
\* null, at top level, in a tuple matcher or as a value of an object matcher,
\* matches exactly the value null.
C6_NullIsPrimitive ==
  pc = "done"
    => /\ (mvMatcher = Null /\ mvValue = Null) => (isPrimitive(mvMatcher) /\ mvResult)
       /\ (mvMatcher = Null /\ mvValue # Null) => ~mvResult
       /\ (mvMatcher = Arr(<<Null, Wild>>) /\ isTuple(mvValue))
            => (mvResult = (mvValue.items[1] = Null))
       /\ (mvMatcher = Obj(<<Entry("a", Null)>>) /\ isPlainObject(mvValue))
            => (mvResult = (Get(mvValue, "a") = Null))

\* C7: the structural-object rule applies only between plain objects: an
\* object matcher, {} included, matches no array and no date, an array
\* matcher matches only through the tuple rule, a date matches nothing.
C7_ObjectRuleOnlyPlain ==
  pc = "done"
    => /\ (isPlainObject(mvMatcher) /\ mvValue.t \in {"array", "date"}) => ~mvResult
       /\ (mvMatcher.t = "array" /\ mvResult)
            => (isTuple(mvMatcher) /\ isTuple(mvValue))
       /\ mvMatcher.t = "date" => ~mvResult

(***************************************************************************)
(* traverse: a walk over arrays and plain objects that calls fn on the     *)
(* other values.                                                           *)
(***************************************************************************)
\* fn(value, key), left symbolic
Call(fn, arg, key) == [t |-> "applied", fn |-> fn.name, arg |-> arg, key |-> key]

\* traverse(fn) with no value: (obj, key) => traverse(fn, obj, key)
CurriedTraverse(fn) == [t |-> "function", name |-> "traverse", fn |-> fn.name]

\* the three cases of traverse; the handlers are told apart by their position
traverseCases ==
  << caseOf(<<Fn("isArray"), Wild>>, HandlerFn(1, FALSE)),
     caseOf(<<Fn("isObject"), Wild>>, HandlerFn(2, FALSE)),
     caseOf(<<Wild, Wild>>, HandlerFn(3, FALSE)) >>

\* the case match(...)(obj, key) selects
traverseCase(obj, key) == match(traverseCases, <<obj, key>>).outcome.value.id

RECURSIVE traverse(_, _, _)

\* traverse handing the key of an array property on to the array's elements
traverseKeyToElements(fn, obj, key) ==
  IF obj = Undef
  THEN CurriedTraverse(fn)
  ELSE LET selected == traverseCase(obj, key)
       IN CASE selected = 1 ->
                 Arr([i \in 1..Len(obj.items) |-> traverse(fn, obj.items[i], key)])
            [] selected = 2 ->
                 Obj([i \in 1..Len(obj.entries) |->
                        Entry(obj.entries[i].k,
                              traverse(fn, obj.entries[i].v, Str(obj.entries[i].k)))])
            [] OTHER -> Call(fn, obj, key)

\* the value traverse(fn, obj, key) returns
traverse(fn, obj, key) ==
  IF obj = Undef
  THEN CurriedTraverse(fn)
  ELSE LET selected == traverseCase(obj, key)
       IN CASE selected = 1 ->
                 Arr([i \in 1..Len(obj.items) |-> traverse(fn, obj.items[i], Undef)])
            [] selected = 2 ->
                 Obj([i \in 1..Len(obj.entries) |->
                        Entry(obj.entries[i].k,
                              traverse(fn, obj.entries[i].v, Str(obj.entries[i].k)))])
            [] OTHER -> Call(fn, obj, key)

RECURSIVE traverseCalls(_, _, _)
RECURSIVE CallsOfItems(_, _, _)
RECURSIVE CallsOfEntries(_, _, _)

\* arr.map(el => traverse(fn, el)): the calls of fn from element i on
CallsOfItems(fn, items, i) ==
  IF i > Len(items)
  THEN <<>>
  ELSE traverseCalls(fn, items[i], Undef) \o CallsOfItems(fn, items, i + 1)

\* Object.entries(o).map(([k, v]) => [k, traverse(fn, v, k)]) from entry i on
CallsOfEntries(fn, entries, i) ==
  IF i > Len(entries)
  THEN <<>>
  ELSE traverseCalls(fn, entries[i].v, Str(entries[i].k))
         \o CallsOfEntries(fn, entries, i + 1)

\* the calls of fn that traverse(fn, obj, key) makes, in order
traverseCalls(fn, obj, key) ==
  IF obj = Undef
  THEN <<>>
  ELSE LET selected == traverseCase(obj, key)
       IN CASE selected = 1 -> CallsOfItems(fn, obj.items, 1)
            [] selected = 2 -> CallsOfEntries(fn, obj.entries, 1)
            [] OTHER -> <<Call(fn, obj, key)>>

(***************************************************************************)
(* The traverse specification: one call on a drawn value.                  *)
(***************************************************************************)
LeafValues == {Num(1), Str("0"), Bool(TRUE), Null, Undef, DateV}

\* arrays and objects of leaves
FlatValues == ArraysOver(LeafValues) \cup ObjectsOver(LeafValues)

\* values nested one level deeper
NestedValues ==
  ObjectsOver({ Num(1), Undef,
                Arr(<<Num(1), Str("0")>>),
                Arr(<<Undef, Null>>),
                Arr(<<Obj(<<Entry("a", Num(1))>>)>>),
                Obj(<<Entry("a", Num(1)), Entry("b", DateV)>>),
                Obj(<<Entry("b", Arr(<<Num(1)>>))>>) })

TraverseValues == LeafValues \cup FlatValues \cup NestedValues

InitTraverse ==
  /\ pc = "ready"
  /\ travValue = Idle
  /\ travResult = Idle
  /\ travCalls = <<>>
  /\ mvValue = Idle
  /\ mvMatcher = Idle
  /\ mvResult = FALSE
  /\ cases = <<>>
  /\ values = <<>>
  /\ outcome = Idle
  /\ trace = <<>>
  /\ specs = Idle
  /\ source = Idle
  /\ evolved = Idle
  /\ evolvedRef = "none"
  /\ list = <<>>
  /\ tree = Idle
  /\ aoObj = Idle
  /\ promises = <<>>
  /\ mappers = <<>>
  /\ jobs = <<>>
  /\ collected = <<>>
  /\ allPromise = Idle
  /\ awaited = Idle
  /\ history = <<>>
  /\ fns = <<>>
  /\ input = Idle
  /\ calls = <<>>
  /\ links = <<>>
  /\ inner = <<>>
  /\ guard = Idle
  /\ message = ""
  /\ guarded = Idle
  /\ failResult = Idle
  /\ keyFn = Idle
  /\ mapResult = Idle
  /\ curriedResult = Idle

Traverse ==
  /\ pc = "ready"
  /\ \E value \in TraverseValues :
       /\ travValue' = value
       /\ travResult' = traverse(Fn("f"), value, Undef)
       /\ travCalls' = traverseCalls(Fn("f"), value, Undef)
  /\ pc' = "done"
  /\ UNCHANGED <<mvValue, mvMatcher, mvResult, cases, values, outcome, trace,
                 specs, source, evolved, evolvedRef, list, tree, aoObj,
                 promises, mappers, jobs, collected, allPromise, awaited,
                 history, fns, input, calls, links, inner, guard, message,
                 guarded, failResult, keyFn, mapResult, curriedResult>>

NextTraverse == Traverse

SpecTraverse == InitTraverse /\ [][NextTraverse]_vars

(***************************************************************************)
(* Claims about traverse, checked under SpecTraverse.                      *)
(***************************************************************************)
\* a value that is neither a plain object nor an array
IsLeaf(v) == ~isArray(v) /\ ~isPlainObject(v)

RECURSIVE SameShapeApplied(_, _)
\* result has the shape of value with every leaf replaced by a call of fn on it
SameShapeApplied(value, result) ==
  CASE isArray(value) ->
         /\ isArray(result)
         /\ Len(result.items) = Len(value.items)
         /\ \A i \in 1..Len(value.items) :
              SameShapeApplied(value.items[i], result.items[i])
    [] isPlainObject(value) ->
         /\ isPlainObject(result)
         /\ Len(result.entries) = Len(value.entries)
         /\ \A i \in 1..Len(value.entries) :
              /\ result.entries[i].k = value.entries[i].k
              /\ SameShapeApplied(value.entries[i].v, result.entries[i].v)
    [] OTHER -> result.t = "applied" /\ result.fn = "f" /\ result.arg = value

RECURSIVE Leaves(_)
RECURSIVE LeavesOfSeq(_, _)
LeavesOfSeq(vs, i) ==
  IF i > Len(vs) THEN <<>> ELSE Leaves(vs[i]) \o LeavesOfSeq(vs, i + 1)

\* the leaves of a value, in order
Leaves(v) ==
  CASE isArray(v) -> LeavesOfSeq(v.items, 1)
    [] isPlainObject(v) ->
         LeavesOfSeq([i \in 1..Len(v.entries) |-> v.entries[i].v], 1)
    [] OTHER -> <<v>>

\* C14: for a value given to traverse(fn, value), the result has the shape of
\* the value with every leaf (a value that is neither a plain object nor an
\* array: numbers, strings, booleans, null, undefined, dates) replaced by
\* fn's result on it; fn is called exactly once per leaf and never on a
\* plain object or an array.
C14_EveryLeafTransformed ==
  (pc = "done" /\ travValue # Undef)
    => /\ SameShapeApplied(travValue, travResult)
       /\ Len(travCalls) = Len(Leaves(travValue))
       /\ \A i \in 1..Len(travCalls) :
            /\ travCalls[i].arg = Leaves(travValue)[i]
            /\ IsLeaf(travCalls[i].arg)

RECURSIVE KeysPassed(_, _)
\* every call of fn recorded in result carries the property key of a leaf
\* that is the value of an object property, and undefined for a leaf that is
\* an element of an array
KeysPassed(value, result) ==
  CASE isArray(value) ->
         \A i \in 1..Len(value.items) :
           IF IsLeaf(value.items[i])
           THEN value.items[i] # Undef
                  => result.items[i] = Call(Fn("f"), value.items[i], Undef)
           ELSE KeysPassed(value.items[i], result.items[i])
    [] isPlainObject(value) ->
         \A i \in 1..Len(value.entries) :
           IF IsLeaf(value.entries[i].v)
           THEN value.entries[i].v # Undef
                  => result.entries[i].v
                       = Call(Fn("f"), value.entries[i].v, Str(value.entries[i].k))
           ELSE KeysPassed(value.entries[i].v, result.entries[i].v)
    [] OTHER -> TRUE

\* C15: fn receives as second argument the property key under which a leaf
\* sits when the leaf is the direct value of an object property, and
\* undefined when the leaf is an element of an array, even when that array is
\* itself the value of an object property.
C15_KeyOnlyForProperties ==
  pc = "done"
    => /\ KeysPassed(travValue, travResult)
       /\ \A i \in 1..Len(travCalls) :
            travCalls[i].key = Undef \/ travCalls[i].key.t = "string"

C15_Witness ==
  /\ pc = "done"
  /\ travValue = Obj(<<Entry("a", Num(1)),
                       Entry("b", Arr(<<Num(1), Str("0")>>))>>)
  /\ travResult = Obj(<<Entry("a", Call(Fn("f"), Num(1), Str("a"))),
                        Entry("b", Arr(<<Call(Fn("f"), Num(1), Undef),
                                         Call(Fn("f"), Str("0"), Undef)>>))>>)
  /\ travCalls = << Call(Fn("f"), Num(1), Str("a")),
                    Call(Fn("f"), Num(1), Undef),
                    Call(Fn("f"), Str("0"), Undef) >>

(***************************************************************************)
(* listToTree(idProp, parentProp, childProp)(list), with the selectors     *)
(* 'id', 'parent' and 'children'.                                          *)
(***************************************************************************)
\* longest list given to listToTree
MaxList == 3

idProp == "id"
parentProp == "parent"
childProp == "children"

\* x == null
isNil(v) == v.t \in {"null", "undefined"}

\* a Map, as its [k, v] entries in insertion order
MapHas(m, key) == \E i \in 1..Len(m) : m[i].k = key
MapGet(m, key) ==
  IF MapHas(m, key) THEN m[CHOOSE i \in 1..Len(m) : m[i].k = key].v ELSE Undef
MapSet(m, key, v) ==
  IF MapHas(m, key)
  THEN [i \in 1..Len(m) |-> IF m[i].k = key THEN Entry(key, v) ELSE m[i]]
  ELSE Append(m, Entry(key, v))

MissingRoot == [type |-> "MissingRoot", message |-> "listToTree: no root node found"]
DanglingReference(id) ==
  [type |-> "DanglingReference", message |-> "listToTree: missing node for id", id |-> id]
\* what unbounded recursion ends with
StackOverflow == [type |-> "RangeError", message |-> "Maximum call stack size exceeded"]

RECURSIVE byIdFrom(_, _, _)
\* list.reduce((acc, item) => acc.set(item[idProp], item), new Map()) from item i on
byIdFrom(l, i, acc) ==
  IF i > Len(l)
  THEN acc
  ELSE byIdFrom(l, i + 1, MapSet(acc, Get(l[i], idProp), l[i]))

byId(l) == byIdFrom(l, 1, <<>>)

\* list.find(item => !item[parentProp])?.[idProp], the test of the earlier variant
rootIdFalsy(l) ==
  LET roots == {i \in 1..Len(l) :
                  Get(l[i], parentProp) \in {Null, Undef, Num(0), Str("")}}
  IN IF roots = {}
     THEN Undef
     ELSE Get(l[CHOOSE i \in roots : \A j \in roots : i <= j], idProp)

\* list.find(item => item[parentProp] == null)?.[idProp]
rootId(l) ==
  LET roots == {i \in 1..Len(l) : isNil(Get(l[i], parentProp))}
  IN IF roots = {}
     THEN Undef
     ELSE Get(l[CHOOSE i \in roots : \A j \in roots : i <= j], idProp)

RECURSIVE childIdsFrom(_, _, _)
\* the child ids prepended to their parent's list
childIdsFromReversed(l, i, acc) ==
  IF i > Len(l)
  THEN acc
  ELSE LET parentId == Get(l[i], parentProp)
           childId == Get(l[i], idProp)
       IN IF isNil(parentId)
          THEN childIdsFrom(l, i + 1, acc)
          ELSE IF MapHas(acc, parentId)
          THEN childIdsFrom(l, i + 1,
                            MapSet(acc, parentId, <<childId>> \o MapGet(acc, parentId)))
          ELSE childIdsFrom(l, i + 1, MapSet(acc, parentId, <<childId>>))

\* the second reduce: parent id -> the ids of its children, from item i on
childIdsFrom(l, i, acc) ==
  IF i > Len(l)
  THEN acc
  ELSE LET parentId == Get(l[i], parentProp)
           childId == Get(l[i], idProp)
       IN IF isNil(parentId)
          THEN childIdsFrom(l, i + 1, acc)
          ELSE IF MapHas(acc, parentId)
          THEN childIdsFrom(l, i + 1,
                            MapSet(acc, parentId, Append(MapGet(acc, parentId), childId)))
          ELSE childIdsFrom(l, i + 1, MapSet(acc, parentId, <<childId>>))

childIdsByParentId(l) == childIdsFrom(l, 1, <<>>)

RECURSIVE build(_, _, _, _)
\* build(id) below the calls build(p) for p in path still on the stack; an id
\* met again on its own path recurses without end
build(id, nodes, kids, path) ==
  IF id \in path
  THEN Throw(StackOverflow)
  ELSE LET node == MapGet(nodes, id)
       IN IF node = Undef
          THEN Throw(DanglingReference(id))
          ELSE LET childIds == IF MapHas(kids, id) THEN MapGet(kids, id) ELSE <<>>
                   built == [i \in 1..Len(childIds) |->
                               build(childIds[i], nodes, kids, path \cup {id})]
                   failed == {i \in 1..Len(childIds) : built[i].kind = "throw"}
               IN IF failed # {}
                  THEN built[CHOOSE i \in failed : \A j \in failed : i <= j]
                  ELSE Return(SpreadAssign(node, childProp,
                         Arr([i \in 1..Len(childIds) |-> built[i].value])))

\* the call that hands back undefined when the list has no root
listToTreeSilent(l) ==
  IF isNil(rootId(l))
  THEN Return(Undef)
  ELSE build(rootId(l), byId(l), childIdsByParentId(l), {})

listToTree(l) ==
  IF isNil(rootId(l))
  THEN Throw(MissingRoot)
  ELSE build(rootId(l), byId(l), childIdsByParentId(l), {})

(***************************************************************************)
(* The listToTree specification: one call on a drawn list.                 *)
(***************************************************************************)
Ids == {Num(0), Num(1), Num(2)}
ParentRefs == Ids \cup {Null, Undef, Str("")}
Records == {Obj(<<Entry(idProp, id), Entry(parentProp, parent)>>) :
              id \in Ids, parent \in ParentRefs}

InitListToTree ==
  /\ pc = "ready"
  /\ list = <<>>
  /\ tree = Idle
  /\ mvValue = Idle
  /\ mvMatcher = Idle
  /\ mvResult = FALSE
  /\ cases = <<>>
  /\ values = <<>>
  /\ outcome = Idle
  /\ trace = <<>>
  /\ specs = Idle
  /\ source = Idle
  /\ evolved = Idle
  /\ evolvedRef = "none"
  /\ travValue = Idle
  /\ travResult = Idle
  /\ travCalls = <<>>
  /\ aoObj = Idle
  /\ promises = <<>>
  /\ mappers = <<>>
  /\ jobs = <<>>
  /\ collected = <<>>
  /\ allPromise = Idle
  /\ awaited = Idle
  /\ history = <<>>
  /\ fns = <<>>
  /\ input = Idle
  /\ calls = <<>>
  /\ links = <<>>
  /\ inner = <<>>
  /\ guard = Idle
  /\ message = ""
  /\ guarded = Idle
  /\ failResult = Idle
  /\ keyFn = Idle
  /\ mapResult = Idle
  /\ curriedResult = Idle

ListToTree ==
  /\ pc = "ready"
  /\ \E l \in SeqUpTo(Records, MaxList) :
       /\ list' = l
       /\ tree' = listToTree(l)
  /\ pc' = "done"
  /\ UNCHANGED <<mvValue, mvMatcher, mvResult, cases, values, outcome, trace,
                 specs, source, evolved, evolvedRef, travValue, travResult,
                 travCalls, aoObj, promises, mappers, jobs, collected,
                 allPromise, awaited, history, fns, input, calls, links,
                 inner, guard, message, guarded, failResult, keyFn,
                 mapResult, curriedResult>>

NextListToTree == ListToTree

SpecListToTree == InitListToTree /\ [][NextListToTree]_vars

(***************************************************************************)
(* Claims about listToTree, checked under SpecListToTree.                  *)
(***************************************************************************)
IdOf(r) == Get(r, idProp)
ParentOf(r) == Get(r, parentProp)

UniqueIds(l) == \A i, j \in 1..Len(l) : IdOf(l[i]) = IdOf(l[j]) => i = j
RootRecords(l) == {i \in 1..Len(l) : ParentOf(l[i]) \in {Null, Undef}}
Dangling(l) ==
  {i \in 1..Len(l) :
     /\ ParentOf(l[i]) \notin {Null, Undef}
     /\ \A j \in 1..Len(l) : IdOf(l[j]) # ParentOf(l[i])}

RECURSIVE ReachesRoot(_, _, _)
\* record i reaches a root record in at most n steps along the parent fields
ReachesRoot(l, i, n) ==
  \/ i \in RootRecords(l)
  \/ /\ n > 0
     /\ \E j \in 1..Len(l) : IdOf(l[j]) = ParentOf(l[i]) /\ ReachesRoot(l, j, n - 1)

WellFormed(l) ==
  /\ UniqueIds(l)
  /\ Cardinality(RootRecords(l)) = 1
  /\ Dangling(l) = {}
  /\ \A i \in 1..Len(l) : ReachesRoot(l, i, Len(l))

\* a node without its children field
Record(node) ==
  Obj(SelectSeq(ObjectEntries(node), LAMBDA e : e.k # childProp))

\* the records of l whose parent field is id, in input order
ChildrenOf(l, id) == SelectSeq(l, LAMBDA r : ParentOf(r) = id)

RECURSIVE TreeOver(_, _, _)
\* node and all below it, to depth n: each node is a record of l extended by
\* a children array holding exactly the records that name it as parent, in
\* input order
TreeOver(l, node, n) ==
  /\ Has(node, childProp)
  /\ isArray(Get(node, childProp))
  /\ LET kids == Get(node, childProp).items
         want == ChildrenOf(l, IdOf(node))
     IN /\ Len(kids) = Len(want)
        /\ \A i \in 1..Len(kids) :
             /\ Record(kids[i]) = want[i]
             /\ n > 0
             /\ TreeOver(l, kids[i], n - 1)

RECURSIVE Size(_)
RECURSIVE SizeOfSeq(_, _)
SizeOfSeq(nodes, i) ==
  IF i > Len(nodes) THEN 0 ELSE Size(nodes[i]) + SizeOfSeq(nodes, i + 1)
\* the number of nodes of a tree
Size(node) == 1 + SizeOfSeq(Get(node, childProp).items, 1)

\* C16: for a list with unique ids, exactly one record whose parent field is
\* null or undefined, every other parent field the id of a record, and no
\* reference cycle, the call returns the root record extended with a children
\* array; the tree holds every record exactly once, each directly under the
\* record its parent field names, siblings in input order, and every node,
\* leaves included, carries a children array.
C16_WellFormedListGivesTree ==
  (pc = "done" /\ WellFormed(list))
    => /\ tree.kind = "return"
       /\ Record(tree.value) = list[CHOOSE i \in RootRecords(list) : TRUE]
       /\ TreeOver(list, tree.value, Len(list))
       /\ Size(tree.value) = Len(list)

C16_Witness ==
  /\ pc = "done"
  /\ list = << Obj(<<Entry("id", Num(1)), Entry("parent", Null)>>),
               Obj(<<Entry("id", Num(2)), Entry("parent", Num(1))>>),
               Obj(<<Entry("id", Num(0)), Entry("parent", Num(1))>>) >>
  /\ WellFormed(list)
  /\ tree = Return(Obj(<<Entry("id", Num(1)), Entry("parent", Null),
              Entry("children", Arr(<<
                Obj(<<Entry("id", Num(2)), Entry("parent", Num(1)),
                      Entry("children", Arr(<<>>))>>),
                Obj(<<Entry("id", Num(0)), Entry("parent", Num(1)),
                      Entry("children", Arr(<<>>))>>) >>))>>))

\* C17: when no record of the list has a null or undefined parent field, the
\* empty list included, the call fails with the MissingRoot error; it never
\* returns undefined or any other value.
C17_MissingRootFails ==
  (pc = "done" /\ RootRecords(list) = {}) => tree = Throw(MissingRoot)

C17_Witness ==
  /\ pc = "done"
  /\ list = << Obj(<<Entry("id", Num(1)), Entry("parent", Num(0))>>),
               Obj(<<Entry("id", Num(0)), Entry("parent", Str(""))>>) >>
  /\ RootRecords(list) = {}
  /\ tree = Throw(MissingRoot)

\* C18: when the list, of unique ids and with a root, has a record whose
\* non-null parent field is the id of no record, the call fails with the
\* DanglingReference error; such a record is never silently dropped.
C18_DanglingReferenceFails ==
  (pc = "done" /\ UniqueIds(list) /\ RootRecords(list) # {} /\ Dangling(list) # {})
    => (tree.kind = "throw" /\ tree.error.type = "DanglingReference")

\* the first record in input order whose parent field is null or undefined
FirstRoot(l) == l[CHOOSE i \in RootRecords(l) : \A j \in RootRecords(l) : i <= j]

\* C19 as stated: the root is the first record, in input order, whose parent
\* field is null or undefined; a record whose parent field is 0 or the empty
\* string is a child reference and never the root; of several roots the first
\* is the one returned.
C19_FirstRootReturned ==
  (pc = "done" /\ RootRecords(list) # {} /\ tree.kind = "return")
    => /\ Record(tree.value) = FirstRoot(list)
       /\ ParentOf(tree.value) \in {Null, Undef}

\* C19 amended: for a list with unique ids that has a record whose parent
\* field is null or undefined, the call returns a tree whose root is the
\* first such record in input order; a record whose parent field is 0 or the
\* empty string is a child reference and never the root.
C19_FirstRootReturnedUniqueIds ==
  (pc = "done" /\ UniqueIds(list) /\ RootRecords(list) # {})
    => /\ tree.kind = "return"
       /\ Record(tree.value) = FirstRoot(list)
       /\ ParentOf(tree.value) \in {Null, Undef}

C19_Witness ==
  /\ pc = "done"
  /\ list = << Obj(<<Entry("id", Num(1)), Entry("parent", Num(0))>>),
               Obj(<<Entry("id", Num(0)), Entry("parent", Undef)>>),
               Obj(<<Entry("id", Num(2)), Entry("parent", Null)>>) >>
  /\ UniqueIds(list)
  /\ tree = Return(Obj(<<Entry("id", Num(0)), Entry("parent", Undef),
              Entry("children", Arr(<<
                Obj(<<Entry("id", Num(1)), Entry("parent", Num(0)),
                      Entry("children", Arr(<<>>))>>) >>))>>))

(***************************************************************************)
(* awaitObj: one async mapper per key, Promise.all over the mappers'       *)
(* promises, Object.fromEntries on the collected entries.  The job queue   *)
(* holds the promise reactions in the order they were enqueued.            *)
(***************************************************************************)
\* number of distinct promises among the property values
MaxPromises == 2

PromiseIds == 1..MaxPromises
PromiseV(p) == [t |-> "promise", id |-> p]

\* Object.prototype.toString.call(obj) === '[object Promise]'
isPromise(v) == v.t = "promise"

\* the states of a promise
Pending == [state |-> "pending"]
Fulfilled(v) == [state |-> "fulfilled", value |-> v]
Rejected(e) == [state |-> "rejected", reason |-> e]

\* the error promise p rejects with
Reason(p) == [type |-> "Error", of |-> p]

\* Object.keys(obj), as indices into the entries of obj
KeyIndices(o) == 1..Len(ObjectEntries(o))

Job(kind, i) == [kind |-> kind, i |-> i]

RECURSIVE JobsFor(_, _, _, _)
\* the jobs Job(kind, i) for the key indices i in S from k on, in key order
JobsFor(o, k, kind, S) ==
  IF k > Len(ObjectEntries(o))
  THEN <<>>
  ELSE (IF k \in S THEN <<Job(kind, k)>> ELSE <<>>) \o JobsFor(o, k + 1, kind, S)

\* the promise taking every rejection, the last one standing
settleLast(cur, st) == st

\* resolve / reject on a promise: only the first call settles it
settleOnce(cur, st) == IF cur = Pending THEN st ELSE cur

\* the array Promise.all resolves with, in arrival order of the values
allValuesInSettleOrder(got) == [j \in 1..Len(got) |-> got[j].v]

\* the array Promise.all resolves with: values[index] = value
allValues(got) ==
  [i \in 1..Len(got) |-> got[CHOOSE j \in 1..Len(got) : got[j].i = i].v]

RECURSIVE fromEntriesFrom(_, _, _)
\* Object.fromEntries(resolvedEntries) from entry i on
fromEntriesFrom(es, i, acc) ==
  IF i > Len(es)
  THEN acc
  ELSE fromEntriesFrom(es, i + 1, SpreadAssign(acc, es[i][1], es[i][2]))

fromEntries(es) == fromEntriesFrom(es, 1, Obj(<<>>))

(***************************************************************************)
(* The awaitObj specification: the call, the settling of the property      *)
(* promises by their producers, and the reactions run from the job queue.  *)
(***************************************************************************)
FulfilValues == {Num(1), Undef}
AwaitValues == {Num(2)} \cup {PromiseV(p) : p \in PromiseIds}
SettledStates == {Fulfilled(v) : v \in FulfilValues}
PromiseStates(p) == {Pending, Rejected(Reason(p))} \cup SettledStates

InitAwaitObj ==
  /\ pc = "ready"
  /\ aoObj = Idle
  /\ promises = [p \in PromiseIds |-> Pending]
  /\ mappers = <<>>
  /\ jobs = <<>>
  /\ collected = <<>>
  /\ allPromise = Idle
  /\ awaited = Idle
  /\ mvValue = Idle
  /\ mvMatcher = Idle
  /\ mvResult = FALSE
  /\ cases = <<>>
  /\ values = <<>>
  /\ outcome = Idle
  /\ trace = <<>>
  /\ specs = Idle
  /\ source = Idle
  /\ evolved = Idle
  /\ evolvedRef = "none"
  /\ travValue = Idle
  /\ travResult = Idle
  /\ travCalls = <<>>
  /\ list = <<>>
  /\ tree = Idle
  /\ history = <<>>
  /\ fns = <<>>
  /\ input = Idle
  /\ calls = <<>>
  /\ links = <<>>
  /\ inner = <<>>
  /\ guard = Idle
  /\ message = ""
  /\ guarded = Idle
  /\ failResult = Idle
  /\ keyFn = Idle
  /\ mapResult = Idle
  /\ curriedResult = Idle

\* awaitObj(o) up to its await: every mapper runs to its own await or to its
\* return (a mapper awaiting a settled promise is scheduled at once),
\* Promise.all subscribes to the mappers' promises
AwaitObj ==
  /\ pc = "ready"
  /\ \E o \in ObjectsOver(AwaitValues) :
       /\ aoObj' = o
       /\ LET es == ObjectEntries(o)
              Settled == {i \in KeyIndices(o) :
                            isPromise(es[i].v) /\ promises[es[i].v.id] # Pending}
              Plain == {i \in KeyIndices(o) : ~isPromise(es[i].v)}
          IN /\ mappers' = [i \in KeyIndices(o) |->
                              IF isPromise(es[i].v)
                              THEN Pending
                              ELSE Fulfilled(<<es[i].k, es[i].v>>)]
             /\ IF Len(es) = 0
                THEN /\ allPromise' = Fulfilled(<<>>)
                     /\ jobs' = <<Job("finish", 0)>>
                ELSE /\ allPromise' = Pending
                     /\ jobs' = JobsFor(o, 1, "resume", Settled)
                                  \o JobsFor(o, 1, "react", Plain)
  /\ collected' = <<>>
  /\ awaited' = Pending
  /\ history' = Append(history, [ev |-> "call"])
  /\ pc' = "called"
  /\ UNCHANGED promises
  /\ UNCHANGED <<mvValue, mvMatcher, mvResult, cases, values, outcome, trace,
                 specs, source, evolved, evolvedRef, travValue, travResult,
                 travCalls, list, tree, fns, input, calls, links, inner,
                 guard, message, guarded, failResult, keyFn, mapResult,
                 curriedResult>>

\* the producer of a pending property promise settles it, before the call
\* or after it; the mappers awaiting it are scheduled in the order they
\* subscribed
Settle ==
  /\ pc \in {"ready", "called"}
  /\ \E p \in PromiseIds :
       /\ promises[p] = Pending
       /\ \E st \in PromiseStates(p) \ {Pending} :
            promises' = [promises EXCEPT ![p] = st]
       /\ history' = Append(history, [ev |-> "settle", p |-> p])
       /\ IF pc = "called"
          THEN LET Awaits == {i \in KeyIndices(aoObj) :
                                ObjectEntries(aoObj)[i].v = PromiseV(p)}
               IN jobs' = jobs \o JobsFor(aoObj, 1, "resume", Awaits)
          ELSE UNCHANGED jobs
  /\ UNCHANGED <<pc, aoObj, mappers, collected, allPromise, awaited>>
  /\ UNCHANGED <<mvValue, mvMatcher, mvResult, cases, values, outcome, trace,
                 specs, source, evolved, evolvedRef, travValue, travResult,
                 travCalls, list, tree, fns, input, calls, links, inner,
                 guard, message, guarded, failResult, keyFn, mapResult,
                 curriedResult>>

\* a mapper continues after `await value` and settles its own promise
ResumeMapper ==
  /\ pc = "called"
  /\ jobs # <<>>
  /\ Head(jobs).kind = "resume"
  /\ LET i == Head(jobs).i
         e == ObjectEntries(aoObj)[i]
         st == promises[e.v.id]
     IN /\ mappers' = [mappers EXCEPT ![i] =
                         IF st.state = "fulfilled"
                         THEN Fulfilled(<<e.k, st.value>>)
                         ELSE Rejected(st.reason)]
        /\ jobs' = Append(Tail(jobs), Job("react", i))
  /\ UNCHANGED <<pc, aoObj, promises, collected, allPromise, awaited>>
  /\ UNCHANGED <<mvValue, mvMatcher, mvResult, cases, values, outcome, trace,
                 specs, source, evolved, evolvedRef, travValue, travResult,
                 travCalls, list, tree, history, fns, input, calls, links,
                 inner, guard, message, guarded, failResult, keyFn,
                 mapResult, curriedResult>>

\* Promise.all's reaction to the settling of the promise of mapper i
AllReaction ==
  /\ pc = "called"
  /\ jobs # <<>>
  /\ Head(jobs).kind = "react"
  /\ LET i == Head(jobs).i
         got == Append(collected, [i |-> i, v |-> mappers[i].value])
     IN IF mappers[i].state = "fulfilled"
        THEN /\ collected' = got
             /\ IF Len(got) = Len(mappers) /\ allPromise = Pending
                THEN /\ allPromise' = Fulfilled(allValues(got))
                     /\ jobs' = Append(Tail(jobs), Job("finish", 0))
                ELSE /\ jobs' = Tail(jobs)
                     /\ UNCHANGED allPromise
        ELSE /\ UNCHANGED collected
             /\ allPromise' = settleOnce(allPromise, Rejected(mappers[i].reason))
             /\ jobs' = IF allPromise = Pending
                        THEN Append(Tail(jobs), Job("finish", 0))
                        ELSE Tail(jobs)
  /\ UNCHANGED <<pc, aoObj, promises, mappers, awaited>>
  /\ UNCHANGED <<mvValue, mvMatcher, mvResult, cases, values, outcome, trace,
                 specs, source, evolved, evolvedRef, travValue, travResult,
                 travCalls, list, tree, history, fns, input, calls, links,
                 inner, guard, message, guarded, failResult, keyFn,
                 mapResult, curriedResult>>

\* awaitObj continues after `await Promise.all(...)`
Finish ==
  /\ pc = "called"
  /\ jobs # <<>>
  /\ Head(jobs).kind = "finish"
  /\ awaited' = IF allPromise.state = "fulfilled"
                THEN Fulfilled(fromEntries(allPromise.value))
                ELSE Rejected(allPromise.reason)
  /\ jobs' = Tail(jobs)
  /\ UNCHANGED <<pc, aoObj, promises, mappers, collected, allPromise>>
  /\ UNCHANGED <<mvValue, mvMatcher, mvResult, cases, values, outcome, trace,
                 specs, source, evolved, evolvedRef, travValue, travResult,
                 travCalls, list, tree, history, fns, input, calls, links,
                 inner, guard, message, guarded, failResult, keyFn,
                 mapResult, curriedResult>>

NextAwaitObj == AwaitObj \/ Settle \/ ResumeMapper \/ AllReaction \/ Finish

SpecAwaitObj == InitAwaitObj /\ [][NextAwaitObj]_vars

(***************************************************************************)
(* Claims about awaitObj, checked under SpecAwaitObj.                      *)
(***************************************************************************)
\* the promises among the property values of obj
Used == {ObjectEntries(aoObj)[i].v.id :
           i \in {j \in KeyIndices(aoObj) : isPromise(ObjectEntries(aoObj)[j].v)}}

\* obj with every promise replaced by the value it resolved with
Resolved ==
  Obj([i \in KeyIndices(aoObj) |->
         LET e == ObjectEntries(aoObj)[i]
         IN Entry(e.k, IF isPromise(e.v) THEN promises[e.v.id].value ELSE e.v)])

\* C20: when no property promise rejects, awaitObj(obj) resolves to an object
\* with exactly the keys of obj in the same enumeration order, each promise
\* replaced by the value it resolved with and every other value unchanged,
\* whatever the order in which the promises settle: the call never rejects,
\* it resolves only with that object, and it has resolved once every
\* property promise has and the reactions have run.
C20_ResolvesToSameKeysInOrder ==
  (pc = "called" /\ \A p \in Used : promises[p].state # "rejected")
    => /\ awaited.state # "rejected"
       /\ awaited.state = "fulfilled"
            => /\ \A p \in Used : promises[p].state = "fulfilled"
               /\ awaited.value = Resolved
       /\ ((\A p \in Used : promises[p].state = "fulfilled") /\ jobs = <<>>)
            => awaited.state = "fulfilled"

\* the second key's promise resolved and was collected before the first's
C20_Witness ==
  /\ pc = "called"
  /\ aoObj = Obj(<<Entry("b", PromiseV(1)), Entry("a", PromiseV(2))>>)
  /\ promises[1] = Fulfilled(Undef)
  /\ promises[2] = Fulfilled(Num(1))
  /\ collected = << [i |-> 2, v |-> <<"a", Num(1)>>], [i |-> 1, v |-> <<"b", Undef>>] >>
  /\ awaited = Fulfilled(Obj(<<Entry("b", Undef), Entry("a", Num(1))>>))

\* the property promises of obj that have rejected
RejectedUsed == {p \in Used : promises[p].state = "rejected"}

\* the place in the history of the call, and of the settling of promise p
CallAt == CHOOSE j \in 1..Len(history) : history[j].ev = "call"
SettledAt(p) ==
  CHOOSE j \in 1..Len(history) : history[j] = [ev |-> "settle", p |-> p]

\* the first key of obj that holds promise p
KeyOf(p) ==
  CHOOSE i \in KeyIndices(aoObj) :
    /\ ObjectEntries(aoObj)[i].v = PromiseV(p)
    /\ \A j \in KeyIndices(aoObj) : ObjectEntries(aoObj)[j].v = PromiseV(p) => i <= j

\* the property promise that rejected first
FirstRejected ==
  CHOOSE p \in RejectedUsed : \A q \in RejectedUsed : SettledAt(p) <= SettledAt(q)

\* when the call learns of the rejection of p: at the call, in key order, for
\* a promise that had rejected before the call, at its rejection otherwise
NoticedAt(p) ==
  IF SettledAt(p) < CallAt THEN KeyOf(p) ELSE Len(ObjectEntries(aoObj)) + SettledAt(p)

FirstNoticed ==
  CHOOSE p \in RejectedUsed : \A q \in RejectedUsed : NoticedAt(p) <= NoticedAt(q)

\* C21 as stated: the aggregate resolves only after every property promise
\* has resolved; once a property promise has rejected and the reactions have
\* run the aggregate has rejected, pending promises or not, and it never
\* resolves with a partial object; its failure is that of the property
\* promise that rejected first.
C21_FirstRejectionWins ==
  pc = "called"
    => /\ awaited.state = "fulfilled"
            => \A p \in Used : promises[p].state = "fulfilled"
       /\ (RejectedUsed # {} /\ jobs = <<>>) => awaited.state = "rejected"
       /\ awaited.state = "rejected"
            => (RejectedUsed # {} /\ awaited.reason = Reason(FirstRejected))

\* C21 amended: as above, but the failure is that of the first rejection the
\* call learns of: among the property promises that had already rejected
\* when awaitObj was called the one at the earliest key wins, whatever the
\* order in which they rejected, and they win over every later rejection;
\* among the promises that reject after the call the first to reject wins.
C21_FirstNoticedRejectionWins ==
  pc = "called"
    => /\ awaited.state = "fulfilled"
            => \A p \in Used : promises[p].state = "fulfilled"
       /\ (RejectedUsed # {} /\ jobs = <<>>) => awaited.state = "rejected"
       /\ awaited.state = "rejected"
            => (RejectedUsed # {} /\ awaited.reason = Reason(FirstNoticed))

\* both promises reject after the call, the second key's first; the
\* aggregate has rejected with its failure
C21_Witness ==
  /\ pc = "called"
  /\ aoObj = Obj(<<Entry("a", PromiseV(1)), Entry("b", PromiseV(2))>>)
  /\ history = << [ev |-> "call"], [ev |-> "settle", p |-> 2],
                  [ev |-> "settle", p |-> 1] >>
  /\ promises[1] = Rejected(Reason(1))
  /\ promises[2] = Rejected(Reason(2))
  /\ awaited = Rejected(Reason(2))

\* the aggregate has rejected while a property promise is still pending
C21_RejectsWithoutWaiting ==
  /\ pc = "called"
  /\ aoObj = Obj(<<Entry("a", PromiseV(1)), Entry("b", PromiseV(2))>>)
  /\ promises[1] = Pending
  /\ promises[2] = Rejected(Reason(2))
  /\ awaited = Rejected(Reason(2))

(***************************************************************************)
(* pipeAsync(...fns)(input): fns.reduce((chain, fn) => chain.then(fn),     *)
(* Promise.resolve(input)).  links[1] is Promise.resolve(input) and        *)
(* links[k + 1] the promise chain.then(fns[k]) returns; inner[k] is the    *)
(* promise step k itself returned, when it returned one.                   *)
(***************************************************************************)
\* longest list of steps given to pipeAsync
MaxFns == 3

\* a step returns a plain value, throws, or returns a promise that then
\* resolves or rejects
StepKinds == {"sync", "throws", "async", "rejects"}

\* the value step k computes from its arguments, left symbolic
StepOut(k, args) == [t |-> "applied", fn |-> k, args |-> args]
\* the error step k fails with
StepError(k) == [type |-> "Error", step |-> k]

\* no promise was returned
NoPromise == [state |-> "none"]

\* the record of one invocation of a step
Invocation(k, args) == [step |-> k, args |-> args]

\* then(fn) on a promise that rejects, swallowing the failure
thenRejectedSwallowed(e) == Fulfilled(Undef)

\* then(fn) with no rejection handler: the new promise rejects with the
\* same reason
thenRejected(e) == Rejected(e)

\* a step called with the pipeline's input in place of the previous value
stepArgsInput(inp, prev) == <<inp>>

\* promiseChain.then(currentFunction): currentFunction(value)
stepArgs(inp, prev) == <<prev>>

PipeInputs == {Num(5), Undef}

InitPipeAsync ==
  /\ pc = "ready"
  /\ fns = <<>>
  /\ input = Idle
  /\ calls = <<>>
  /\ links = <<>>
  /\ inner = <<>>
  /\ mvValue = Idle
  /\ mvMatcher = Idle
  /\ mvResult = FALSE
  /\ cases = <<>>
  /\ values = <<>>
  /\ outcome = Idle
  /\ trace = <<>>
  /\ specs = Idle
  /\ source = Idle
  /\ evolved = Idle
  /\ evolvedRef = "none"
  /\ travValue = Idle
  /\ travResult = Idle
  /\ travCalls = <<>>
  /\ list = <<>>
  /\ tree = Idle
  /\ aoObj = Idle
  /\ promises = <<>>
  /\ mappers = <<>>
  /\ jobs = <<>>
  /\ collected = <<>>
  /\ allPromise = Idle
  /\ awaited = Idle
  /\ history = <<>>
  /\ guard = Idle
  /\ message = ""
  /\ guarded = Idle
  /\ failResult = Idle
  /\ keyFn = Idle
  /\ mapResult = Idle
  /\ curriedResult = Idle

\* pipeAsync(...fs)(inp): the whole chain is built before any step runs
PipeAsync ==
  /\ pc = "ready"
  /\ \E fs \in SeqUpTo(StepKinds, MaxFns), inp \in PipeInputs :
       /\ fns' = fs
       /\ input' = inp
       /\ links' = <<Fulfilled(inp)>> \o [k \in 1..Len(fs) |-> Pending]
       /\ inner' = [k \in 1..Len(fs) |-> NoPromise]
  /\ calls' = <<>>
  /\ pc' = "called"
  /\ UNCHANGED <<mvValue, mvMatcher, mvResult, cases, values, outcome, trace,
                 specs, source, evolved, evolvedRef, travValue, travResult,
                 travCalls, list, tree, aoObj, promises, mappers, jobs,
                 collected, allPromise, awaited, history, guard, message,
                 guarded, failResult, keyFn, mapResult, curriedResult>>

\* the reaction of chain.then(fns[k]) to the settling of chain
ThenReaction ==
  /\ pc = "called"
  /\ \E k \in 1..Len(fns) :
       /\ links[k] # Pending
       /\ links[k + 1] = Pending
       /\ inner[k] = NoPromise
       /\ IF links[k].state = "fulfilled"
          THEN LET args == stepArgs(input, links[k].value)
               IN /\ calls' = Append(calls, Invocation(k, args))
                  /\ CASE fns[k] = "sync" ->
                            /\ links' = [links EXCEPT ![k + 1] = Fulfilled(StepOut(k, args))]
                            /\ UNCHANGED inner
                       [] fns[k] = "throws" ->
                            /\ links' = [links EXCEPT ![k + 1] = Rejected(StepError(k))]
                            /\ UNCHANGED inner
                       [] OTHER ->
                            /\ inner' = [inner EXCEPT ![k] = Pending]
                            /\ UNCHANGED links
          ELSE /\ links' = [links EXCEPT ![k + 1] = thenRejected(links[k].reason)]
               /\ UNCHANGED <<calls, inner>>
  /\ UNCHANGED <<pc, fns, input>>
  /\ UNCHANGED <<mvValue, mvMatcher, mvResult, cases, values, outcome, trace,
                 specs, source, evolved, evolvedRef, travValue, travResult,
                 travCalls, list, tree, aoObj, promises, mappers, jobs,
                 collected, allPromise, awaited, history, guard, message,
                 guarded, failResult, keyFn, mapResult, curriedResult>>

\* the promise step k returned settles and the chain's promise follows it
InnerSettles ==
  /\ pc = "called"
  /\ \E k \in 1..Len(fns) :
       /\ inner[k] = Pending
       /\ LET st == IF fns[k] = "async"
                    THEN Fulfilled(StepOut(k, calls[Len(calls)].args))
                    ELSE Rejected(StepError(k))
          IN /\ inner' = [inner EXCEPT ![k] = st]
             /\ links' = [links EXCEPT ![k + 1] = st]
  /\ UNCHANGED <<pc, fns, input, calls>>
  /\ UNCHANGED <<mvValue, mvMatcher, mvResult, cases, values, outcome, trace,
                 specs, source, evolved, evolvedRef, travValue, travResult,
                 travCalls, list, tree, aoObj, promises, mappers, jobs,
                 collected, allPromise, awaited, history, guard, message,
                 guarded, failResult, keyFn, mapResult, curriedResult>>

NextPipeAsync == PipeAsync \/ ThenReaction \/ InnerSettles

SpecPipeAsync == InitPipeAsync /\ [][NextPipeAsync]_vars

(***************************************************************************)
(* Claims about pipeAsync, checked under SpecPipeAsync.                    *)
(***************************************************************************)
\* the promise the pipeline call returned
Piped == links[Len(links)]

\* nothing is left to run: no reaction is due and no step's promise is pending
Quiet ==
  \A k \in 1..Len(fns) :
    /\ inner[k] # Pending
    /\ ~(links[k] # Pending /\ links[k + 1] = Pending /\ inner[k] = NoPromise)

\* the steps that fail
Failing == {k \in 1..Len(fns) : fns[k] \in {"throws", "rejects"}}

\* the resolved output of step k of a pipeline whose steps up to k succeed
RECURSIVE OutputOf(_)
OutputOf(k) == IF k = 0 THEN input ELSE StepOut(k, <<OutputOf(k - 1)>>)

\* C22: the steps are invoked in order, each at most once and, when the
\* pipeline runs to its end, exactly once; step k + 1 is invoked only once
\* step k's value is there (returned, or resolved when step k returned a
\* promise) and gets that value as its only argument; what the call
\* returns is a promise, never settled before the steps ran, and it resolves
\* with the last step's resolved output whether the steps were synchronous
\* or not.
C22_StepsInOrder ==
  /\ [](pc = "called"
         => /\ \A j \in 1..Len(calls) :
                 /\ calls[j].step = j
                 /\ calls[j].args = <<OutputOf(j - 1)>>
                 /\ links[j] = Fulfilled(OutputOf(j - 1))
            /\ Piped.state \in {"pending", "fulfilled", "rejected"}
            /\ Piped.state = "fulfilled"
                 => (Len(calls) = Len(fns) /\ Piped.value = OutputOf(Len(fns)))
            /\ (Failing = {} /\ Quiet) => Piped.state = "fulfilled")
  /\ [][Len(calls') > Len(calls)
          => /\ Len(calls') = Len(calls) + 1
             /\ links[Len(calls) + 1].state = "fulfilled"
             /\ \A k \in 1..Len(calls) : links[k + 1].state = "fulfilled"]_vars

C22_Witness ==
  /\ pc = "called"
  /\ fns = <<"sync", "async", "sync">>
  /\ input = Num(5)
  /\ calls = << Invocation(1, <<Num(5)>>),
                Invocation(2, <<StepOut(1, <<Num(5)>>)>>),
                Invocation(3, <<StepOut(2, <<StepOut(1, <<Num(5)>>)>>)>>) >>
  /\ Piped = Fulfilled(StepOut(3, <<StepOut(2, <<StepOut(1, <<Num(5)>>)>>)>>))

\* the first step that fails
FirstFailingStep == CHOOSE k \in Failing : \A j \in Failing : k <= j

\* C29: when step k throws or returns a promise that rejects, no step after
\* k is ever invoked and the promise the pipeline returned rejects with that
\* same failure, unchanged; the call itself returns a promise, it does not
\* throw, and the failure is never replaced by a resolved value.
C29_FailurePropagates ==
  (pc = "called" /\ Failing # {})
    => /\ \A j \in 1..Len(calls) : calls[j].step <= FirstFailingStep
       /\ Piped.state # "fulfilled"
       /\ Piped.state = "rejected" => Piped.reason = StepError(FirstFailingStep)
       /\ Quiet => Piped.state = "rejected"

C29_Witness ==
  /\ pc = "called"
  /\ fns = <<"sync", "rejects", "sync">>
  /\ Len(calls) = 2
  /\ inner[2] = Rejected(StepError(2))
  /\ Piped = Rejected(StepError(2))

(***************************************************************************)
(* pipeTap(fn1, ..., fn7)(arg): every step is called with arg and the      *)
(* result of the step before it; the reduce runs synchronously until a     *)
(* step returns a promise and chains the remaining steps with then.        *)
(* links[k] is the reduce's result after step k, inner[k] the promise      *)
(* step k returned.                                                        *)
(***************************************************************************)
\* the widest overload takes fn1 .. fn8
MaxSteps == 8
\* the implementation declares fn1 .. fn7
Parameters == 7

\* a result that is a value, not a promise
Plain(v) == [state |-> "value", value |-> v]

\* result instanceof Promise
instanceofPromise(result) == result.state # "value"

\* the arguments that reach the parameters fn1 .. fn7
parameters(fs) == SubSeq(fs, 1, IF Len(fs) < Parameters THEN Len(fs) ELSE Parameters)

\* currentFn(arg, result)
tapArgs(arg, result) == <<arg, result>>

\* currentFn(arg, result) is called during the reduce: the step runs now and
\* its return value, a value or a promise, is the reduce's new result
tapCall(acc, kind, k, arg, result) ==
  LET args == tapArgs(arg, result)
  IN [calls |-> Append(acc.calls, Invocation(k, args)),
      links |-> Append(acc.links,
                       IF kind = "sync" THEN Plain(StepOut(k, args)) ELSE Pending),
      inner |-> Append(acc.inner, IF kind = "sync" THEN NoPromise ELSE Pending)]

\* the reducer: (result, currentFn) => result instanceof Promise
\*   ? result.then(r => currentFn(arg, r)) : currentFn(arg, result)
tapReducer(acc, kind, k, arg) ==
  LET result == acc.links[Len(acc.links)]
  IN IF instanceofPromise(result)
     THEN [calls |-> acc.calls,
           links |-> Append(acc.links, Pending),
           inner |-> Append(acc.inner, NoPromise)]
     ELSE tapCall(acc, kind, k, arg, result.value)

\* functions.reduce(reducer, fn1(arg, undefined)), from step k on
RECURSIVE tapReduce(_, _, _, _)
tapReduce(acc, fs, k, arg) ==
  IF k > Len(fs) THEN acc
  ELSE tapReduce(tapReducer(acc, fs[k], k, arg), fs, k + 1, arg)

\* the lists of 1 to n steps, each returning a value or a promise that
\* resolves
StepsUpTo(n) == UNION {[1..m -> {"sync", "async"}] : m \in 1..n}

InitPipeTap ==
  /\ pc = "ready"
  /\ fns = <<>>
  /\ input = Idle
  /\ calls = <<>>
  /\ links = <<>>
  /\ inner = <<>>
  /\ mvValue = Idle
  /\ mvMatcher = Idle
  /\ mvResult = FALSE
  /\ cases = <<>>
  /\ values = <<>>
  /\ outcome = Idle
  /\ trace = <<>>
  /\ specs = Idle
  /\ source = Idle
  /\ evolved = Idle
  /\ evolvedRef = "none"
  /\ travValue = Idle
  /\ travResult = Idle
  /\ travCalls = <<>>
  /\ list = <<>>
  /\ tree = Idle
  /\ aoObj = Idle
  /\ promises = <<>>
  /\ mappers = <<>>
  /\ jobs = <<>>
  /\ collected = <<>>
  /\ allPromise = Idle
  /\ awaited = Idle
  /\ history = <<>>
  /\ guard = Idle
  /\ message = ""
  /\ guarded = Idle
  /\ failResult = Idle
  /\ keyFn = Idle
  /\ mapResult = Idle
  /\ curriedResult = Idle

\* pipeTap(...fs)(arg): fn1 and the reduce run before the call returns
PipeTap ==
  /\ pc = "ready"
  /\ \E fs \in StepsUpTo(MaxSteps), arg \in PipeInputs :
       LET functions == parameters(fs)
           first == tapCall([calls |-> <<>>, links |-> <<>>, inner |-> <<>>],
                            functions[1], 1, arg, Undef)
           acc == tapReduce(first, functions, 2, arg)
       IN /\ fns' = fs
          /\ input' = arg
          /\ calls' = acc.calls
          /\ links' = acc.links
          /\ inner' = acc.inner
  /\ pc' = "called"
  /\ UNCHANGED <<mvValue, mvMatcher, mvResult, cases, values, outcome, trace,
                 specs, source, evolved, evolvedRef, travValue, travResult,
                 travCalls, list, tree, aoObj, promises, mappers, jobs,
                 collected, allPromise, awaited, history, guard, message,
                 guarded, failResult, keyFn, mapResult, curriedResult>>

\* the reaction of result.then(r => currentFn(arg, r)) for step k
TapReaction ==
  /\ pc = "called"
  /\ \E k \in 2..Len(links) :
       /\ links[k - 1].state = "fulfilled"
       /\ links[k] = Pending
       /\ inner[k] = NoPromise
       /\ LET args == tapArgs(input, links[k - 1].value)
          IN /\ calls' = Append(calls, Invocation(k, args))
             /\ IF fns[k] = "sync"
                THEN /\ links' = [links EXCEPT ![k] = Fulfilled(StepOut(k, args))]
                     /\ UNCHANGED inner
                ELSE /\ inner' = [inner EXCEPT ![k] = Pending]
                     /\ UNCHANGED links
  /\ UNCHANGED <<pc, fns, input>>
  /\ UNCHANGED <<mvValue, mvMatcher, mvResult, cases, values, outcome, trace,
                 specs, source, evolved, evolvedRef, travValue, travResult,
                 travCalls, list, tree, aoObj, promises, mappers, jobs,
                 collected, allPromise, awaited, history, guard, message,
                 guarded, failResult, keyFn, mapResult, curriedResult>>

\* the promise step k returned resolves; the reduce's result for step k is
\* that promise, or a then promise that follows it
TapInnerSettles ==
  /\ pc = "called"
  /\ \E k \in 1..Len(links) :
       /\ inner[k] = Pending
       /\ LET j == CHOOSE c \in 1..Len(calls) : calls[c].step = k
              st == Fulfilled(StepOut(k, calls[j].args))
          IN /\ inner' = [inner EXCEPT ![k] = st]
             /\ links' = [links EXCEPT ![k] = st]
  /\ UNCHANGED <<pc, fns, input, calls>>
  /\ UNCHANGED <<mvValue, mvMatcher, mvResult, cases, values, outcome, trace,
                 specs, source, evolved, evolvedRef, travValue, travResult,
                 travCalls, list, tree, aoObj, promises, mappers, jobs,
                 collected, allPromise, awaited, history, guard, message,
                 guarded, failResult, keyFn, mapResult, curriedResult>>

NextPipeTap == PipeTap \/ TapReaction \/ TapInnerSettles

SpecPipeTap == InitPipeTap /\ [][NextPipeTap]_vars

(***************************************************************************)
(* Claims about pipeTap, checked under SpecPipeTap.  fns holds the steps   *)
(* the caller supplied.                                                    *)
(***************************************************************************)
\* what the pipeTap call returned
TapResult == links[Len(links)]

\* nothing is left to run
TapQuiet ==
  \A k \in 1..Len(links) :
    /\ inner[k] # Pending
    /\ k > 1 => ~(links[k - 1].state = "fulfilled" /\ links[k] = Pending
                    /\ inner[k] = NoPromise)

\* the resolved output of step k
RECURSIVE TapOutputOf(_)
TapOutputOf(k) ==
  StepOut(k, <<input, IF k = 1 THEN Undef ELSE TapOutputOf(k - 1)>>)

\* the steps were invoked as they should
TapArguments ==
  \A j \in 1..Len(calls) :
    /\ calls[j].args[1] = input
    /\ calls[j].args[2] = IF calls[j].step = 1 THEN Undef
                          ELSE TapOutputOf(calls[j].step - 1)

\* the result, once there, is the resolved output of the last supplied step
TapResultIsLast ==
  TapResult.state \in {"value", "fulfilled"}
    => TapResult.value = TapOutputOf(Len(fns))

\* C23: every step gets the original input as its first argument; the first
\* step gets undefined as its second argument and each later step the
\* resolved output of the step before it; the result of the pipeline is the
\* resolved output of the last step.
C23_TapArgumentsAndResult ==
  pc = "called" => (TapArguments /\ TapResultIsLast)

\* C23 for pipelines of at most Parameters steps
C23_UpToParameters ==
  (pc = "called" /\ Len(fns) <= Parameters) => (TapArguments /\ TapResultIsLast)

\* the steps invoked so far that returned a promise
ReturnedPromise == {j \in 1..Len(calls) : fns[calls[j].step] = "async"}

\* the result is a promise exactly when a step returned one
TapEventualIff == instanceofPromise(TapResult) <=> ReturnedPromise # {}

\* with synchronous steps only, the call returns the last step's value
TapAllSyncPlain ==
  (\A k \in 1..Len(fns) : fns[k] = "sync")
    => TapResult = Plain(TapOutputOf(Len(fns)))

\* a step after one that returned a promise is invoked with that promise,
\* and every result before it, resolved
TapWaits ==
  \A j \in 2..Len(calls) :
    (\E i \in 1..(j - 1) : fns[i] = "async")
      => \A i \in 1..(j - 1) : links[i].state \in {"value", "fulfilled"}

\* C24: the result is a promise if and only if at least one step returned a
\* promise; when all steps are synchronous the call returns the last step's
\* plain value, synchronously; once a step has returned a promise, the later
\* steps are invoked only after it resolved.
C24_EventualOnlyWhenNeeded ==
  /\ [](pc = "called" => (TapEventualIff /\ TapAllSyncPlain /\ TapWaits))
  /\ [][(pc = "called" /\ Len(calls') > Len(calls))
          => \A i \in 1..Len(calls) : links[i].state \in {"value", "fulfilled"}]_vars

\* C24 for pipelines of at most Parameters steps
C24_UpToParameters ==
  (pc = "called" /\ Len(fns) <= Parameters)
    => (TapEventualIff /\ TapAllSyncPlain /\ TapWaits)

\* C25: for every number n of supplied steps from 1 to 8, once the pipeline
\* has run each of the n steps was invoked exactly once, in order, and the
\* result is the output of the last supplied step.
C25_UpToEightSteps ==
  (pc = "called" /\ TapQuiet)
    => /\ Len(calls) = Len(fns)
       /\ \A j \in 1..Len(calls) : calls[j].step = j
       /\ TapResult.value = TapOutputOf(Len(fns))

\* C25 for every number of supplied steps from 1 to Parameters
C25_UpToParameters ==
  (pc = "called" /\ TapQuiet /\ Len(fns) <= Parameters)
    => /\ Len(calls) = Len(fns)
       /\ \A j \in 1..Len(calls) : calls[j].step = j
       /\ TapResult.value = TapOutputOf(Len(fns))

\* seven steps, with a promise in the middle, have all run
C25_SevenStepsRan ==
  /\ pc = "called"
  /\ fns = <<"sync", "sync", "async", "sync", "sync", "sync", "sync">>
  /\ Len(calls) = 7
  /\ TapResult = Fulfilled(TapOutputOf(7))

(***************************************************************************)
(* guards.ts: failOn(guard, message)(x)                                    *)
(***************************************************************************)
\* new Error(message)
Error(msg) == [type |-> "Error", message |-> msg]

\* failOn with the test the wrong way round
failOnInverted(g, msg, v) ==
  IF CallPredicate(g, v) THEN Return(v) ELSE Throw(Error(msg))

\* if (guard(x)) throw new Error(message); return x
failOn(g, msg, v) ==
  IF CallPredicate(g, v) THEN Throw(Error(msg)) ELSE Return(v)

Guards == {Fn("isString"), Fn("isNumber"), Fn("isArray"), Fn("isUndefined"),
           Fn("isNotUndefined"), Wild}

Messages == {"Planes are not allowed!", "Only circles are allowed"}

InitFailOn ==
  /\ pc = "ready"
  /\ guard = Idle
  /\ message = ""
  /\ guarded = Idle
  /\ failResult = Idle
  /\ mvValue = Idle
  /\ mvMatcher = Idle
  /\ mvResult = FALSE
  /\ cases = <<>>
  /\ values = <<>>
  /\ outcome = Idle
  /\ trace = <<>>
  /\ specs = Idle
  /\ source = Idle
  /\ evolved = Idle
  /\ evolvedRef = "none"
  /\ travValue = Idle
  /\ travResult = Idle
  /\ travCalls = <<>>
  /\ list = <<>>
  /\ tree = Idle
  /\ aoObj = Idle
  /\ promises = <<>>
  /\ mappers = <<>>
  /\ jobs = <<>>
  /\ collected = <<>>
  /\ allPromise = Idle
  /\ awaited = Idle
  /\ history = <<>>
  /\ fns = <<>>
  /\ input = Idle
  /\ calls = <<>>
  /\ links = <<>>
  /\ inner = <<>>
  /\ keyFn = Idle
  /\ mapResult = Idle
  /\ curriedResult = Idle

\* failOn(g, msg)(v)
FailOn ==
  /\ pc = "ready"
  /\ \E g \in Guards, msg \in Messages, v \in Values :
       /\ guard' = g
       /\ message' = msg
       /\ guarded' = v
       /\ failResult' = failOn(g, msg, v)
  /\ pc' = "called"
  /\ UNCHANGED <<mvValue, mvMatcher, mvResult, cases, values, outcome, trace,
                 specs, source, evolved, evolvedRef, travValue, travResult,
                 travCalls, list, tree, aoObj, promises, mappers, jobs,
                 collected, allPromise, awaited, history, fns, input, calls,
                 links, inner, keyFn, mapResult, curriedResult>>

NextFailOn == FailOn

SpecFailOn == InitFailOn /\ [][NextFailOn]_vars

\* C26: when the predicate holds for x the call fails with an error whose
\* message is the message given to failOn and returns no value; otherwise it
\* returns x itself, unchanged.
C26_FailsExactlyOnGuard ==
  pc = "called"
    => IF CallPredicate(guard, guarded)
       THEN /\ failResult.kind = "throw"
            /\ failResult.error.type = "Error"
            /\ failResult.error.message = message
       ELSE /\ failResult.kind = "return"
            /\ failResult.value = guarded

C26_Witness ==
  /\ pc = "called"
  /\ guard = Fn("isString")
  /\ guarded = Str("0")
  /\ message = "Planes are not allowed!"
  /\ failResult = Throw(Error("Planes are not allowed!"))

\* a value the guard lets through comes back
C26_Passes ==
  /\ pc = "called"
  /\ guard = Fn("isString")
  /\ guarded = Arr(<<Num(1), Str("0")>>)
  /\ failResult = Return(guarded)

(***************************************************************************)
(* map-by.ts: mapBy(fn, list) and mapBy(fn)(list)                          *)
(***************************************************************************)
\* longest list given to mapBy
MaxItems == 3

\* the key functions of the callers: el => el.id, el => el.name and
\* el => el % 2
KeyFn(name) == [t |-> "function", name |-> "keyFn", of |-> name]
CallKeyFn(f, el) ==
  CASE f.of = "id" -> Get(el, "id")
    [] f.of = "name" -> Get(el, "name")
    [] OTHER -> Num(el.n % 2)

\* for (const el of list) result.set(fn(el), el), keeping the first element
\* of every key
mapByFromKeepFirst(f, l, i, result) ==
  IF Len(l) = 0 THEN result
  ELSE LET ks == {j \in 1..Len(l) : \A h \in 1..(j - 1) : CallKeyFn(f, l[h]) # CallKeyFn(f, l[j])}
           first == [j \in 1..Len(l) |-> j \in ks]
           kept == SelectSeq([j \in 1..Len(l) |-> [el |-> l[j], keep |-> first[j]]],
                             LAMBDA r : r.keep)
       IN [j \in 1..Len(kept) |-> Entry(CallKeyFn(f, kept[j].el), kept[j].el)]

\* for (const el of list) result.set(fn(el), el), from element i on
RECURSIVE mapByFrom(_, _, _, _)
mapByFrom(f, l, i, result) ==
  IF i > Len(l) THEN result
  ELSE mapByFrom(f, l, i + 1, MapSet(result, CallKeyFn(f, l[i]), l[i]))

\* the function mapBy(fn) returns
CurriedMapBy(f) == [t |-> "function", name |-> "mapBy", fn |-> f]

\* mapBy(fn, list); an absent list is undefined
mapBy(f, l) ==
  IF l = Undef THEN CurriedMapBy(f) ELSE mapByFrom(f, l.items, 1, <<>>)

Items ==
  {Obj(<<Entry("id", i), Entry("name", n)>>) :
     i \in {Num(1), Num(2), Str("a")}, n \in {Str("Alice"), Str("Bob")}}

InitMapBy ==
  /\ pc = "ready"
  /\ keyFn = Idle
  /\ list = <<>>
  /\ mapResult = Idle
  /\ curriedResult = Idle
  /\ mvValue = Idle
  /\ mvMatcher = Idle
  /\ mvResult = FALSE
  /\ cases = <<>>
  /\ values = <<>>
  /\ outcome = Idle
  /\ trace = <<>>
  /\ specs = Idle
  /\ source = Idle
  /\ evolved = Idle
  /\ evolvedRef = "none"
  /\ travValue = Idle
  /\ travResult = Idle
  /\ travCalls = <<>>
  /\ tree = Idle
  /\ aoObj = Idle
  /\ promises = <<>>
  /\ mappers = <<>>
  /\ jobs = <<>>
  /\ collected = <<>>
  /\ allPromise = Idle
  /\ awaited = Idle
  /\ history = <<>>
  /\ fns = <<>>
  /\ input = Idle
  /\ calls = <<>>
  /\ links = <<>>
  /\ inner = <<>>
  /\ guard = Idle
  /\ message = ""
  /\ guarded = Idle
  /\ failResult = Idle

\* mapBy(f, l) and mapBy(f)(l)
MapBy ==
  /\ pc = "ready"
  /\ \E f \in {KeyFn("id"), KeyFn("name"), KeyFn("mod2")} :
       \E l \in IF f.of = "mod2" THEN SeqUpTo({Num(1), Num(2), Num(3)}, MaxItems)
                ELSE SeqUpTo(Items, MaxItems) :
         /\ keyFn' = f
         /\ list' = l
         /\ mapResult' = mapBy(f, Arr(l))
         /\ curriedResult' = mapBy(mapBy(f, Undef).fn, Arr(l))
  /\ pc' = "called"
  /\ UNCHANGED <<mvValue, mvMatcher, mvResult, cases, values, outcome, trace,
                 specs, source, evolved, evolvedRef, travValue, travResult,
                 travCalls, tree, aoObj, promises, mappers, jobs, collected,
                 allPromise, awaited, history, fns, input, calls, links,
                 inner, guard, message, guarded, failResult>>

NextMapBy == MapBy

SpecMapBy == InitMapBy /\ [][NextMapBy]_vars

\* the keys fn gives for the elements of the list
MapKeys == {CallKeyFn(keyFn, list[i]) : i \in 1..Len(list)}

\* the last element of the list with key k
LastWith(k) ==
  list[CHOOSE i \in 1..Len(list) :
         /\ CallKeyFn(keyFn, list[i]) = k
         /\ \A j \in (i + 1)..Len(list) : CallKeyFn(keyFn, list[j]) # k]

\* C27: the map has exactly one entry per distinct key fn(el), so size 0 for
\* the empty list; every key is mapped to the last element of the list that
\* gives that key; mapBy(fn)(list) yields the same map as mapBy(fn, list).
C27_LastElementPerKey ==
  pc = "called"
    => /\ Len(mapResult) = Cardinality(MapKeys)
       /\ {mapResult[i].k : i \in 1..Len(mapResult)} = MapKeys
       /\ \A k \in MapKeys : MapGet(mapResult, k) = LastWith(k)
       /\ curriedResult = mapResult

C27_Witness ==
  /\ pc = "called"
  /\ keyFn = KeyFn("id")
  /\ list = << Obj(<<Entry("id", Num(1)), Entry("name", Str("Alice"))>>),
               Obj(<<Entry("id", Num(1)), Entry("name", Str("Bob"))>>) >>
  /\ mapResult = << Entry(Num(1), Obj(<<Entry("id", Num(1)), Entry("name", Str("Bob"))>>)) >>
  /\ curriedResult = mapResult

\* the empty list gives the empty map
C27_EmptyList ==
  /\ pc = "called"
  /\ list = <<>>
  /\ mapResult = <<>>

(***************************************************************************)
(* The order of evaluation inside one call of the dispatcher, checked      *)
(* under SpecMatch on the log of matcher and handler evaluations.          *)
(***************************************************************************)
\* case i was found not to match before position e of the log: one of its
\* matchers was evaluated there and failed
FoundNotMatchingBefore(i, e) ==
  \E d \in 1..(e - 1) :
    /\ trace[d].ev = "matcher"
    /\ trace[d].case = i
    /\ ~matchValue(ValueAt(values, trace[d].index), cases[i].predicates[trace[d].index])

\* C28: within one call the matchers are evaluated case by case in the order
\* the cases were given: a matcher of case j is evaluated only after every
\* case i < j was found not to match, and once a case is selected no matcher
\* and no handler of a later case is evaluated.
C28_CasesEvaluatedInOrder ==
  pc = "done"
    => /\ \A d, e \in 1..Len(trace) : d < e => trace[d].case <= trace[e].case
       /\ \A e \in 1..Len(trace) :
            \A i \in 1..(trace[e].case - 1) : FoundNotMatchingBefore(i, e)
       /\ Matching # {}
            => \A e \in 1..Len(trace) : trace[e].case <= Earliest(Matching)

C28_Witness ==
  /\ pc = "done"
  /\ Len(cases) = 2
  /\ values = <<Num(1), Str("0")>>
  /\ cases[1].predicates = <<Num(1), Wild>>
  /\ cases[1].handler = HandlerFn(1, FALSE)
  /\ cases[2].predicates = <<Wild, Wild>>
  /\ trace = << [ev |-> "matcher", case |-> 1, index |-> 1],
                [ev |-> "matcher", case |-> 1, index |-> 2],
                HandlerEvent(1) >>

\* the second case is reached once the first has failed
C28_SecondCaseReached ==
  /\ pc = "done"
  /\ Len(cases) = 2
  /\ values = <<Str("0"), Num(1)>>
  /\ trace = << [ev |-> "matcher", case |-> 1, index |-> 1],
                [ev |-> "matcher", case |-> 2, index |-> 1],
                [ev |-> "matcher", case |-> 2, index |-> 2] >>

(***************************************************************************)
(* Termination of listToTree, checked under SpecListToTree.  A call of     *)
(* build that meets an id again on its own path recurses without end; the  *)
(* model ends it with StackOverflow.                                       *)
(***************************************************************************)
\* C30: the call ends for every finite list, with a tree or with an error of
\* its own, duplicate ids, self-referencing records and cyclic parent
\* references included: build never recurses into the same id without bound.
C30_BuildTerminates ==
  pc = "done"
    => \/ tree.kind = "return"
       \/ tree.kind = "throw" /\ tree.error # StackOverflow

\* C30 for lists whose ids are all different: a record that is its own
\* parent, or records that are each other's parents, are not below the root
C30_UniqueIdsTerminate ==
  (pc = "done" /\ UniqueIds(list))
    => \/ tree.kind = "return"
       \/ tree.kind = "throw" /\ tree.error # StackOverflow

\* a self-referencing record and a cycle beside the root are left out
C30_CycleBesideRoot ==
  /\ pc = "done"
  /\ list = << Obj(<<Entry(idProp, Num(0)), Entry(parentProp, Null)>>),
               Obj(<<Entry(idProp, Num(1)), Entry(parentProp, Num(2))>>),
               Obj(<<Entry(idProp, Num(2)), Entry(parentProp, Num(1))>>) >>
  /\ tree.kind = "return"

\* a second record with the root's id that names itself as parent
C30_DuplicateRootId ==
  /\ pc = "done"
  /\ list = << Obj(<<Entry(idProp, Num(1)), Entry(parentProp, Null)>>),
               Obj(<<Entry(idProp, Num(1)), Entry(parentProp, Num(1))>>) >>
  /\ tree = Throw(StackOverflow)

====
